---- MODULE Spec2Model ----
(***************************************************************************)
(* A model of scqubits' SymbolicCircuit (core/symbolic_circuit.py): the    *)
(* circuit graph, the independent-mode computation, the construction of    *)
(* the variable transformation and its classification, the spanning-tree   *)
(* analysis that yields the closure branches, and the control flow of      *)
(* initiate_symboliccircuit.                                               *)
(*                                                                         *)
(* Nodes are their integer ids (0 is ground).  A branch is a record        *)
(* [type, nodes, parameters]; inside a circuit a branch object is named by *)
(* its position in self.branches.  Vectors are sequences of integers, a    *)
(* list of vectors is a sequence of them.  numpy's matrix_rank and det are *)
(* modelled exactly over the integers (all matrices here have small        *)
(* integer entries, where the floating point results agree).               *)
(***************************************************************************)
EXTENDS Integers, Sequences, FiniteSets, TLC

----------------------------------------------------------------------------
(* Bounds of the model *)

\* largest number of non-ground nodes of an enumerated circuit
MaxNodes == 3
\* largest number of non-ground nodes of an enumerated circuit whose whole
\* life (initialisations, requests) is followed
MaxLifeNodes == 2
\* largest number of branches of an enumerated circuit
MaxBranches == 2
\* the number of branches of the circuits of inductors and junctions
MaxMeshBranches == 3
\* largest charging energy of a branch of a circuit of capacitors and junctions
MaxEnergy == 2
\* number of distinct numeric parameter values of the branches of an
\* enumerated circuit
MaxParam == 1
\* number of calls made on one instance
MaxCalls == 2
\* largest number of characters of a word of a branch descriptor
MaxWordLen == 3
\* largest absolute value of an entry of a supplied transformation matrix
MaxEntry == 1

\* line 369: the Hamiltonian is computed at initialisation up to this many nodes
EagerHamiltonianNodes == 3

----------------------------------------------------------------------------
(* Generic list helpers (Python list operations used by the code) *)

SeqToSet(s) == {s[i] : i \in 1..Len(s)}

\* del s[i]
RemoveAt(s, i) == [k \in 1..(Len(s) - 1) |-> IF k < i THEN s[k] ELSE s[k + 1]]

\* the positions i of a list with s[i] \in S, in increasing order, as a list
RECURSIVE SetToSortedSeq(_)
SetToSortedSeq(S) ==
  IF S = {} THEN <<>>
  ELSE LET m == CHOOSE x \in S : \A y \in S : x <= y
       IN <<m>> \o SetToSortedSeq(S \ {m})

\* sum(list_of_lists, [])
RECURSIVE Flatten(_)
Flatten(ss) == IF ss = <<>> THEN <<>> ELSE Head(ss) \o Flatten(Tail(ss))

\* all orderings of a finite set, as sequences
RECURSIVE Orderings(_)
Orderings(S) ==
  IF S = {} THEN {<<>>}
  ELSE UNION {{<<x>> \o t : t \in Orderings(S \ {x})} : x \in S}

----------------------------------------------------------------------------
(* Exact linear algebra on integer matrices (lists of rows) *)

ScaleSub(a, r, b, p) == [k \in 1..Len(r) |-> a * r[k] - b * p[k]]

\* np.linalg.matrix_rank: fraction-free Gaussian elimination, column by column
RECURSIVE RankFrom(_, _)
RankFrom(rows, c) ==
  IF rows = <<>> THEN 0
  ELSE IF c > Len(rows[1]) THEN 0
  ELSE LET piv == {i \in 1..Len(rows) : rows[i][c] # 0}
       IN IF piv = {} THEN RankFrom(rows, c + 1)
          ELSE LET p    == CHOOSE i \in piv : \A j \in piv : i <= j
                   prow == rows[p]
                   rest == RemoveAt(rows, p)
                   red  == [k \in 1..Len(rest) |->
                              ScaleSub(prow[c], rest[k], rest[k][c], prow)]
               IN 1 + RankFrom(red, c + 1)

matrix_rank(rows) == RankFrom(rows, 1)

\* the minor of a square matrix: row 1 and column c removed
Minor(m, c) == [i \in 1..(Len(m) - 1) |-> RemoveAt(m[i + 1], c)]

\* np.linalg.det, by cofactor expansion along the first row
RECURSIVE det(_)
det(m) ==
  IF Len(m) = 0 THEN 1
  ELSE IF Len(m) = 1 THEN m[1][1]
  ELSE LET term[c \in 0..Len(m)] ==
             IF c = 0 THEN 0
             ELSE term[c - 1]
                  + (IF c % 2 = 1 THEN 1 ELSE -1) * m[1][c] * det(Minor(m, c))
       IN term[Len(m)]

\* m.T for a list of rows whose rows have n entries
Transpose(m, n) == [c \in 1..n |-> [r \in 1..Len(m) |-> m[r][c]]]

----------------------------------------------------------------------------
(* Branch: queries on a pair of branches *)

Branch(n_i, n_f, branch_type, parameters) ==
  [type |-> branch_type, nodes |-> <<n_i, n_f>>, parameters |-> parameters]

\* Branch.node_ids
node_ids(b) == b.nodes

NodeSet(b) == {b.nodes[1], b.nodes[2]}

\* Branch.is_connected: fewer than four distinct nodes among the four endpoints
is_connected(b1, b2) == Cardinality(NodeSet(b1) \cup NodeSet(b2)) < 4

\* Branch.common_node
common_node(b1, b2) == NodeSet(b1) \cap NodeSet(b2)

\* the node ids that occur in a list of branches
NodesOf(branch_list) == UNION {NodeSet(branch_list[i]) : i \in 1..Len(branch_list)}

\* SymbolicCircuit.are_branchsets_disconnected
are_branchsets_disconnected(branch_list1, branch_list2) ==
  NodesOf(branch_list1) \cap NodesOf(branch_list2) = {}

----------------------------------------------------------------------------
(* SymbolicCircuit._independent_modes *)

\* a variant of ForPass: no branch is taken for connected to another
ForPassNoneConnected(max_connected_subgraph, branch_subset_copy, i) ==
  <<max_connected_subgraph, branch_subset_copy>>

\* one pass of "for b1 in branch_subset_copy" (lines 664-669): the list is
\* shortened while it is iterated, so the element after a removed one is skipped
RECURSIVE ForPass(_, _, _)
ForPass(max_connected_subgraph, branch_subset_copy, i) ==
  IF i > Len(branch_subset_copy) THEN <<max_connected_subgraph, branch_subset_copy>>
  ELSE IF \E k \in 1..Len(max_connected_subgraph) :
            is_connected(branch_subset_copy[i], max_connected_subgraph[k])
       THEN ForPass(Append(max_connected_subgraph, branch_subset_copy[i]),
                    RemoveAt(branch_subset_copy, i), i + 1)
       ELSE ForPass(max_connected_subgraph, branch_subset_copy, i + 1)

\* the inner while loop (lines 661-669)
RECURSIVE GrowSubgraph(_, _)
GrowSubgraph(max_connected_subgraph, branch_subset_copy) ==
  IF are_branchsets_disconnected(max_connected_subgraph, branch_subset_copy)
  THEN <<max_connected_subgraph, branch_subset_copy>>
  ELSE LET r == ForPass(max_connected_subgraph, branch_subset_copy, 1)
       IN GrowSubgraph(r[1], r[2])

\* the outer while loop (lines 655-670): the list max_connected_subgraphs
RECURSIVE MaxConnectedSubgraphs(_)
MaxConnectedSubgraphs(branch_subset_copy) ==
  IF branch_subset_copy = <<>> THEN <<>>
  ELSE LET r == GrowSubgraph(<<Head(branch_subset_copy)>>, Tail(branch_subset_copy))
       IN <<r[1]>> \o MaxConnectedSubgraphs(r[2])

\* nodes_copy: self.nodes, then the ground node when the circuit is grounded
NodesCopy(N, is_grounded) ==
  [i \in 1..(IF is_grounded THEN N + 1 ELSE N) |-> IF i <= N THEN i ELSE 0]

\* node.marker after lines 646-684: the last subgraph that holds the node decides
NodeMarker(node, subgraphs) ==
  LET holding == {i \in 1..Len(subgraphs) : node \in NodesOf(subgraphs[i])}
  IN IF holding = {} THEN 0
     ELSE LET i == CHOOSE x \in holding : \A y \in holding : y <= x
          IN IF 0 \in NodesOf(subgraphs[i]) THEN -1 ELSE i

\* node_branch_set_indices (lines 686-688)
NodeBranchSetIndices(N, is_grounded, branch_subset) ==
  LET subgraphs == MaxConnectedSubgraphs(branch_subset)
      nc        == NodesCopy(N, is_grounded)
  IN [i \in 1..Len(nc) |-> NodeMarker(nc[i], subgraphs)]

\* the vector with entry on at the positions in S and off elsewhere
IndicatorVec(len, S, on, off) == [i \in 1..len |-> IF i \in S THEN on ELSE off]

\* lines 732-735: a single-node mode is kept when it raises the rank
RECURSIVE AddIndependent(_, _)
AddIndependent(basis, candidates) ==
  IF candidates = <<>> THEN basis
  ELSE LET mat == Append(basis, Head(candidates))
       IN IF matrix_rank(mat) = Len(mat)
          THEN AddIndependent(mat, Tail(candidates))
          ELSE AddIndependent(basis, Tail(candidates))

\* lines 696-742.  list(set(node_branch_set_indices)) lists the small
\* non-negative markers in increasing order (CPython's set order for small
\* ints); the marker -1 is dropped.
ModesOfMarkers(idx, is_grounded, single_nodes, on, off) ==
  LET len     == Len(idx)
      markers == SetToSortedSeq({idx[i] : i \in 1..len} \ {-1})
      basis0  == [k \in 1..Len(markers) |->
                    IndicatorVec(len, {i \in 1..len : idx[i] = markers[k]}, on, off)]
      positions == SetToSortedSeq({i \in 1..len : idx[i] = 0})
      single_node_modes ==
        [k \in 1..Len(positions) |-> IndicatorVec(len, {positions[k]}, on, off)]
      basis   == IF single_nodes THEN AddIndependent(basis0, single_node_modes)
                 ELSE basis0
  IN IF is_grounded
     THEN [k \in 1..Len(basis) |-> SubSeq(basis[k], 1, len - 1)]
     ELSE basis

independent_modes(N, is_grounded, branch_subset, single_nodes, on, off) ==
  ModesOfMarkers(NodeBranchSetIndices(N, is_grounded, branch_subset),
                 is_grounded, single_nodes, on, off)

----------------------------------------------------------------------------
(* SymbolicCircuit.variable_transformation_matrix *)

\* [branch for branch in self.branches if branch.type ...]
BranchesOfType(branches, types) == SelectSeq(branches, LAMBDA b : b.type \in types)

BranchTypes == {"C", "L", "JJ", "JJ2"}

\* the four mode sets (lines 923-933 and 948-952)
PeriodicModes(N, g, branches) ==
  independent_modes(N, g, BranchesOfType(branches, {"L"}), TRUE, 1, 0)

FrozenModes(N, g, branches) ==
  independent_modes(N, g, BranchesOfType(branches, BranchTypes \ {"L"}), TRUE, 1, 0)

\* a variant of CyclicModes: the capacitors are not left out
CyclicModesOfAll(N, g, branches) ==
  independent_modes(N, g, branches, TRUE, 1, 0)

CyclicModes(N, g, branches) ==
  independent_modes(N, g, BranchesOfType(branches, BranchTypes \ {"C"}), TRUE, 1, 0)

\* a variant of LCModes: no oscillator mode is found
NoLCModes(N, g, branches, on, off) == <<>>

LCModes(N, g, branches, on, off) ==
  independent_modes(N, g, BranchesOfType(branches, {"JJ"}), FALSE, on, off)

\* the vector called Sigma in the code: [1] * len(self.nodes)
SigmaVec(N) == [i \in 1..N |-> 1]

\* a variant of FoldSigma: the sum mode is appended whatever the rank
FoldSigmaAppended(frozen_modes, N, is_grounded) ==
  IF is_grounded THEN frozen_modes ELSE Append(frozen_modes, SigmaVec(N))

\* lines 939-946: the sum mode is appended to the frozen modes of an ungrounded
\* circuit, or replaces the first of them when appending keeps the rank
FoldSigma(frozen_modes, N, is_grounded) ==
  IF is_grounded THEN frozen_modes
  ELSE IF matrix_rank(Append(frozen_modes, SigmaVec(N))) < Len(frozen_modes) + 1
       THEN Tail(frozen_modes) \o <<SigmaVec(N)>>
       ELSE Append(frozen_modes, SigmaVec(N))

\* itertools.permutations of the positions in S, in lexicographic order
RECURSIVE LexPerms(_)
LexPerms(S) ==
  IF S = {} THEN <<<<>>>>
  ELSE LET xs == SetToSortedSeq(S)
       IN Flatten([k \in 1..Len(xs) |->
                     LET sub == LexPerms(S \ {xs[k]})
                     IN [j \in 1..Len(sub) |-> <<xs[k]>> \o sub[j]]])

\* vector_ref (lines 971-975)
VectorRef(node_count) ==
  [i \in 1..node_count |->
     IF node_count > 2 THEN (IF i <= node_count - 2 THEN 1 ELSE 0)
     ELSE (IF i <= node_count - 1 THEN 1 ELSE 0)]

\* vector_set (line 977)
VectorSet(node_count) ==
  LET perms == LexPerms(1..node_count)
      ref   == VectorRef(node_count)
  IN [k \in 1..Len(perms) |-> [i \in 1..node_count |-> ref[perms[k][i]]]]

\* the while loop of lines 978-984
RECURSIVE SimpleLoop(_, _, _, _)
SimpleLoop(standard_basis, vector_set, item, node_count) ==
  IF matrix_rank(standard_basis) >= node_count THEN standard_basis
  ELSE LET mat == Append(standard_basis, vector_set[item])
       IN IF matrix_rank(mat) = Len(mat)
          THEN SimpleLoop(mat, vector_set, item + 1, node_count)
          ELSE SimpleLoop(standard_basis, vector_set, item + 1, node_count)

Identity(n) == [i \in 1..n |-> [j \in 1..n |-> IF i = j THEN 1 ELSE 0]]

\* standard_basis (lines 968-989)
StandardBasis(node_count, basis_completion) ==
  IF basis_completion = "standard" THEN Identity(node_count)
  ELSE SimpleLoop(<<SigmaVec(node_count)>>, VectorSet(node_count), 1, node_count)

\* x in list
InList(x, list) == \E i \in 1..Len(list) : list[i] = x

\* a variant of PlacesIn: the positions in new_basis before the sorting
PlacesInBasis(pos_list, pos) == pos

\* var_categories (lines 1051-1065): 1-based places in pos_list
PlacesIn(pos_list, pos) ==
  SetToSortedSeq({i \in 1..Len(pos_list) : InList(pos_list[i], pos)})

\* a variant of variable_transformation_matrix: the completion of the basis
\* (lines 991-996) is left out
variable_transformation_matrix_nocompletion(N, is_grounded, branches, basis_completion) ==
  LET periodic_modes == PeriodicModes(N, is_grounded, branches)
      frozen_modes   == FoldSigma(FrozenModes(N, is_grounded, branches), N, is_grounded)
      cyclic_modes   == CyclicModes(N, is_grounded, branches)
      LC_modes       == LCModes(N, is_grounded, branches, -1, 1)
      new_basis == AddIndependent(<<>>,
                     frozen_modes \o cyclic_modes \o periodic_modes \o LC_modes)
  IN [matrix |-> Transpose(new_basis, N),
      var_categories |-> [periodic |-> <<>>, extended |-> <<>>, cyclic |-> <<>>,
                          frozen |-> <<>>, osc |-> <<>>]]

\* one list comprehension of lines 1008-1038: the positions of new_basis that
\* are in none of the earlier lists and whose vector is in mode_list
PositionsOf(new_basis, earlier, mode_list) ==
  SelectSeq([i \in 1..Len(new_basis) |-> i],
            LAMBDA i : ~InList(i, earlier) /\ InList(new_basis[i], mode_list))

\* pos_rest (lines 1039-1046): the positions in none of the earlier lists
PositionsLeft(new_basis, earlier) ==
  SelectSeq([i \in 1..Len(new_basis) |-> i], LAMBDA i : ~InList(i, earlier))

\* a variant of PosList: the order of the comment of lines 1001-1002, the
\* cyclic positions first
PosListCyclicFirst(pos_periodic, pos_rest, pos_cyclic, pos_frozen, pos_Sigma) ==
  pos_cyclic \o pos_periodic \o pos_frozen \o pos_rest \o pos_Sigma

\* pos_list (line 1047)
PosList(pos_periodic, pos_rest, pos_cyclic, pos_frozen, pos_Sigma) ==
  pos_periodic \o pos_rest \o pos_cyclic \o pos_frozen \o pos_Sigma

\* lines 1001-1067: the sorting of the completed basis.  The result: the matrix
\* as its list of rows (column j is the j-th new basis vector) and the category
\* map.
SortBasis(N, is_grounded, new_basis, periodic_modes, frozen_modes, cyclic_modes, LC_modes) ==
  LET pos_Sigma == IF is_grounded THEN <<>>
                   ELSE PositionsOf(new_basis, <<>>, <<SigmaVec(N)>>)
      pos_cyclic   == PositionsOf(new_basis, pos_Sigma, cyclic_modes)
      pos_periodic == PositionsOf(new_basis, pos_Sigma \o pos_cyclic, periodic_modes)
      pos_frozen   == PositionsOf(new_basis, pos_Sigma \o pos_cyclic \o pos_periodic,
                                  frozen_modes)
      pos_osc      == PositionsOf(new_basis,
                                  pos_Sigma \o pos_cyclic \o pos_periodic \o pos_frozen,
                                  LC_modes)
      pos_rest     == PositionsLeft(new_basis,
                                    pos_Sigma \o pos_cyclic \o pos_periodic \o pos_frozen)
      pos_list == PosList(pos_periodic, pos_rest, pos_cyclic, pos_frozen, pos_Sigma)
      sorted   == [k \in 1..Len(pos_list) |-> new_basis[pos_list[k]]]
  IN [matrix |-> Transpose(sorted, N),
      var_categories |->
        [periodic |-> PlacesIn(pos_list, pos_periodic),
         extended |-> PlacesIn(pos_list, pos_rest),
         cyclic   |-> PlacesIn(pos_list, pos_cyclic),
         frozen   |-> PlacesIn(pos_list, pos_frozen),
         osc      |-> PlacesIn(pos_list, pos_osc)]]

\* lines 954-999: modes keeps the independent ones of the four mode sets, and
\* the standard basis completes them (lines 991-996)
CompleteBasis(N, is_grounded, basis_completion, periodic_modes, frozen_modes, cyclic_modes, LC_modes) ==
  SortBasis(N, is_grounded,
            AddIndependent(AddIndependent(<<>>, frozen_modes \o cyclic_modes
                                                  \o periodic_modes \o LC_modes),
                           StandardBasis(N, basis_completion)),
            periodic_modes, frozen_modes, cyclic_modes, LC_modes)

\* lines 911-1067
variable_transformation_matrix(N, is_grounded, branches, basis_completion) ==
  CompleteBasis(N, is_grounded, basis_completion,
                PeriodicModes(N, is_grounded, branches),
                FoldSigma(FrozenModes(N, is_grounded, branches), N, is_grounded),
                CyclicModes(N, is_grounded, branches),
                LCModes(N, is_grounded, branches, -1, 1))

----------------------------------------------------------------------------
(* SymbolicCircuit.check_transformation_matrix *)

IsPowerOfTwo(n) == \E k \in 0..30 : n = 2 ^ k

Abs(n) == IF n < 0 THEN 0 - n ELSE n

\* Whether the LU factorisation behind np.linalg.det (partial pivoting, column
\* c onwards) rounds a multiplier: a pivot that is no power of two divides a
\* nonzero entry below it.  The rows are kept scaled by the earlier pivots.
RECURSIVE RoundsFrom(_, _)
RoundsFrom(rows, c) ==
  IF Len(rows) <= 1 THEN FALSE
  ELSE LET big  == {i \in 1..Len(rows) :
                      \A j \in 1..Len(rows) : Abs(rows[j][c]) <= Abs(rows[i][c])}
           p    == CHOOSE i \in big : \A j \in big : i <= j
           prow == rows[p]
           rest == RemoveAt(rows, p)
       IN IF \A k \in 1..Len(rest) : rest[k][c] = 0 THEN RoundsFrom(rest, c + 1)
          ELSE IF ~IsPowerOfTwo(Abs(prow[c])) THEN TRUE
          ELSE RoundsFrom([k \in 1..Len(rest) |->
                             ScaleSub(prow[c], rest[k], rest[k][c], prow)], c + 1)

\* a variant of DetIsZero: the determinant is exact
DetIsZeroExactly(m) == {det(m) = 0}

\* The outcomes of "np.linalg.det(transformation_matrix) == 0" (line 779).
\* The determinant is a floating point LU product: it is zero exactly for a
\* singular matrix whose factorisation rounds nothing, never for a regular
\* one, and a rounding residue (zero or not, as the arithmetic of the build
\* has it) for a singular matrix whose factorisation rounds.
DetIsZero(m) ==
  IF det(m) # 0 THEN {FALSE}
  ELSE IF RoundsFrom(m, 1) THEN {TRUE, FALSE}
  ELSE {TRUE}

\* _mode_in_subspace (lines 744-761)
mode_in_subspace(mode, subspace) ==
  IF Len(subspace) = 0 THEN FALSE
  ELSE matrix_rank(Append(subspace, mode)) = Len(subspace)

\* lines 805-811: the sum mode joins the frozen modes of an ungrounded circuit
IncludeSigma(frozen_modes, N, is_grounded) ==
  IF is_grounded THEN frozen_modes
  ELSE IF mode_in_subspace(SigmaVec(N), frozen_modes)
       THEN Tail(frozen_modes) \o <<SigmaVec(N)>>
       ELSE Append(frozen_modes, SigmaVec(N))

\* the loops of lines 816-825: a mode outside the modes kept so far is kept
RECURSIVE AddOutside(_, _)
AddOutside(modes, candidates) ==
  IF candidates = <<>> THEN modes
  ELSE IF ~mode_in_subspace(Head(candidates), modes)
       THEN AddOutside(Append(modes, Head(candidates)), Tail(candidates))
       ELSE AddOutside(modes, Tail(candidates))

ModeTypes == {"periodic", "extended", "cyclic", "frozen", "osc"}

\* the body of the loops of lines 835-855 and 868-889: the categories that one
\* mode is appended to
CategoriesOfMode(N, is_grounded, mode, periodic_modes, frozen_modes, cyclic_modes, LC_modes) ==
  IF mode_in_subspace(SigmaVec(N), <<mode>>) /\ ~is_grounded THEN {}
  ELSE IF mode_in_subspace(mode, frozen_modes) THEN {"frozen"}
  ELSE IF mode_in_subspace(mode, cyclic_modes) THEN {"cyclic"}
  ELSE IF mode_in_subspace(mode, periodic_modes) THEN {"periodic"}
  ELSE IF mode_in_subspace(mode, LC_modes) THEN {"osc", "extended"}
  ELSE {"extended"}

\* var_categories_circuit and var_categories_user (lines 827-889): the 1-based
\* places of the modes of a list, by category
Classification(N, is_grounded, mode_list, periodic_modes, frozen_modes, cyclic_modes, LC_modes) ==
  [t \in ModeTypes |->
     SelectSeq([x \in 1..Len(mode_list) |-> x],
               LAMBDA x : t \in CategoriesOfMode(N, is_grounded, mode_list[x], periodic_modes,
                                                 frozen_modes, cyclic_modes, LC_modes))]

\* a variant of ExtraModes: a count that differs either way is reported
DifferingModes(var_categories_circuit, var_categories_user) ==
  {t \in ModeTypes : Len(var_categories_circuit[t]) # Len(var_categories_user[t])}

\* the mode types that lines 895-907 warn about: num_extra_modes > 0
ExtraModes(var_categories_circuit, var_categories_user) ==
  {t \in ModeTypes : Len(var_categories_circuit[t]) - Len(var_categories_user[t]) > 0}

\* lines 813-909 once the four mode sets are known
CompareClassifications(N, is_grounded, transformation_matrix, periodic_modes, frozen_modes, cyclic_modes, LC_modes) ==
  [var_categories_circuit |->
     Classification(N, is_grounded,
                    AddOutside(AddOutside(<<>>, frozen_modes \o cyclic_modes
                                                  \o periodic_modes \o LC_modes),
                               LC_modes),
                    periodic_modes, frozen_modes, cyclic_modes, LC_modes),
   var_categories_user |->
     Classification(N, is_grounded, Transpose(transformation_matrix, N),
                    periodic_modes, frozen_modes, cyclic_modes, LC_modes)]

\* check_transformation_matrix (lines 763-909) for a matrix that passed the
\* test of line 779: the category map it returns and the mode types it warns
\* about
classify_transformation_matrix(N, is_grounded, branches, transformation_matrix) ==
  CompareClassifications(N, is_grounded, transformation_matrix,
                         PeriodicModes(N, is_grounded, branches),
                         IncludeSigma(FrozenModes(N, is_grounded, branches), N, is_grounded),
                         CyclicModes(N, is_grounded, branches),
                         LCModes(N, is_grounded, branches, 1, 0))

\* the warnings of one check_transformation_matrix call
WarnedModes(compared) ==
  ExtraModes(compared.var_categories_circuit, compared.var_categories_user)

----------------------------------------------------------------------------
(* SymbolicCircuit._spanning_tree and _closure_branches *)

\* node.branches of a freshly parsed circuit: Branch.__init__ appends the new
\* branch to both of its nodes (twice to the node of a shorted branch)
RECURSIVE NodeBranches(_, _, _)
NodeBranches(branches, node, i) ==
  IF i > Len(branches) THEN <<>>
  ELSE (IF branches[i].nodes[1] = node THEN <<i>> ELSE <<>>)
       \o (IF branches[i].nodes[2] = node THEN <<i>> ELSE <<>>)
       \o NodeBranches(branches, node, i + 1)

\* a variant of CopyWithoutCapacitors: the capacitors stay in the copy
CopyWithCapacitors(N, branches) ==
  [nodes    |-> [i \in 1..N |-> i],
   branches |-> [i \in 1..Len(branches) |-> i],
   nb       |-> [n \in 0..N |-> NodeBranches(branches, n, 1)],
   removed  |-> <<>>,
   passes   |-> 0]

\* circ_copy after lines 1301-1318: the re-parsed circuit without its
\* capacitors.  nb is node.branches of every node; removed lists the nodes the
\* trimming loop has removed, each with len(node.branches) at that moment, and
\* passes counts the passes of its while loop.
CopyWithoutCapacitors(N, branches) ==
  LET keep(i) == branches[i].type # "C"
  IN [nodes    |-> [i \in 1..N |-> i],
      branches |-> SelectSeq([i \in 1..Len(branches) |-> i], keep),
      nb       |-> [n \in 0..N |-> SelectSeq(NodeBranches(branches, n, 1), keep)],
      removed  |-> <<>>,
      passes   |-> 0]

\* one pass of "for node in circ_copy.nodes" (lines 1323-1341); the list is
\* shortened while it is iterated.  The result: the copy and num_float_nodes.
RECURSIVE TrimPass(_, _, _, _)
TrimPass(branches, cc, i, num_float_nodes) ==
  IF i > Len(cc.nodes) THEN <<cc, num_float_nodes>>
  ELSE LET node == cc.nodes[i]
           gone == Append(cc.removed, [node |-> node, degree |-> Len(cc.nb[node])])
       IN IF Len(cc.nb[node]) = 0
          THEN TrimPass(branches, [cc EXCEPT !.nodes = RemoveAt(@, i), !.removed = gone],
                        i + 1, num_float_nodes + 1)
          ELSE IF Len(cc.nb[node]) = 1
          THEN LET b     == cc.nb[node][1]
                   other == IF branches[b].nodes[1] = node
                            THEN branches[b].nodes[2] ELSE branches[b].nodes[1]
               IN TrimPass(branches,
                           [cc EXCEPT !.nodes    = RemoveAt(@, i),
                                      !.branches = SelectSeq(@, LAMBDA x : x # b),
                                      !.nb[other] = SelectSeq(@, LAMBDA x : x # b),
                                      !.removed  = gone],
                           i + 1, num_float_nodes + 1)
          ELSE TrimPass(branches, cc, i + 1, num_float_nodes)

\* a variant of TrimLoop: one pass only
TrimOnce(branches, cc) == TrimPass(branches, [cc EXCEPT !.passes = 1], 1, 0)[1]

\* the while loop of lines 1320-1341
RECURSIVE TrimLoop(_, _)
TrimLoop(branches, cc) ==
  LET r == TrimPass(branches, [cc EXCEPT !.passes = @ + 1], 1, 0)
  IN IF r[2] > 0 THEN TrimLoop(branches, r[1]) ELSE r[1]

TrimmedCopy(N, branches) == TrimLoop(branches, CopyWithoutCapacitors(N, branches))

\* Node.connected_nodes("all") on the trimmed copy, as a set
connected_nodes(branches, cc, node) ==
  {IF branches[cc.nb[node][k]].nodes[1] = node
   THEN branches[cc.nb[node][k]].nodes[2]
   ELSE branches[cc.nb[node][k]].nodes[1] : k \in 1..Len(cc.nb[node])}

\* the while loop of lines 1361-1387
RECURSIVE NodeSetsLoop(_, _, _, _, _)
NodeSetsLoop(branches, cc, num_nodes, node_sets, node_set_index) ==
  IF Len(Flatten(node_sets)) >= num_nodes THEN node_sets
  ELSE LET placed  == SeqToSet(Flatten(node_sets))
           fresh   == SelectSeq(cc.nodes, LAMBDA n : n \notin placed)
           current == IF node_sets[node_set_index] = <<>> /\ fresh # <<>>
                      THEN <<fresh[1]>> ELSE node_sets[node_set_index]
           sets1   == [node_sets EXCEPT ![node_set_index] = current]
           reached == UNION {connected_nodes(branches, cc, current[k]) :
                               k \in 1..Len(current)}
           node_set == SetToSortedSeq(reached \ SeqToSet(Flatten(sets1)))
       IN NodeSetsLoop(branches, cc, num_nodes, Append(sets1, node_set),
                       node_set_index + 1)

\* node_sets (lines 1348-1387)
NodeSets(is_grounded, branches, cc) ==
  NodeSetsLoop(branches, cc,
               IF is_grounded THEN Len(cc.nodes) + 1 ELSE Len(cc.nodes),
               IF is_grounded THEN <<<<0>>>> ELSE <<<<cc.nodes[1]>>>>, 1)

\* connecting_branches(n1, n2) (lines 1393-1394)
connecting_branches(cc, n1, n2) ==
  SelectSeq(cc.nb[n1], LAMBDA b : InList(b, cc.nb[n2]))

\* a variant of TreeBranchOf: the loop over the previous level has no break
TreeBranchOfEvery(cc, node, prev_set) ==
  LET linked == SelectSeq(prev_set,
                          LAMBDA p : Len(connecting_branches(cc, node, p)) # 0)
  IN [k \in 1..Len(linked) |-> connecting_branches(cc, node, linked[k])[1]]

\* the branch chosen for one node of a level (lines 1401-1404): <<>> when none
TreeBranchOf(cc, node, prev_set) ==
  LET linked == SelectSeq(prev_set,
                          LAMBDA p : Len(connecting_branches(cc, node, p)) # 0)
  IN IF linked = <<>> THEN <<>>
     ELSE <<connecting_branches(cc, node, linked[1])[1]>>

\* tree_copy (lines 1391-1404)
TreeCopy(cc, node_sets) ==
  Flatten([index \in 1..Len(node_sets) |->
             IF index = 1 THEN <<>>
             ELSE Flatten([k \in 1..Len(node_sets[index]) |->
                             TreeBranchOf(cc, node_sets[index][k],
                                          node_sets[index - 1])])])

\* is_same_branch (lines 1407-1421): type, parameters and ordered node ids agree
is_same_branch(branch_1, branch_2) ==
  /\ branch_1.type = branch_2.type
  /\ branch_1.parameters = branch_2.parameters
  /\ branch_1.nodes = branch_2.nodes

\* the branches of self that is_same_branch matches with one branch of the copy
SameBranches(branches, c) ==
  SelectSeq([i \in 1..Len(branches) |-> i],
            LAMBDA b : is_same_branch(branches[c], branches[b]))

\* _spanning_tree (lines 1295-1433): tree and superconducting_loop_branches,
\* as lists of positions in self.branches, with the locals circ_copy, node_sets
\* and tree_copy at the return
spanning_tree(N, is_grounded, branches) ==
  LET cc == TrimmedCopy(N, branches)
  IN IF cc.nodes = <<>>
     THEN [tree |-> <<>>, loop |-> <<>>, copy |-> cc, node_sets |-> <<>>,
           tree_copy |-> <<>>]
     ELSE LET node_sets == NodeSets(is_grounded, branches, cc)
              tree_copy == TreeCopy(cc, node_sets)
          IN [tree |-> Flatten([k \in 1..Len(tree_copy) |->
                                  SameBranches(branches, tree_copy[k])]),
              loop |-> Flatten([k \in 1..Len(cc.branches) |->
                                  SameBranches(branches, cc.branches[k])]),
              copy |-> cc, node_sets |-> node_sets, tree_copy |-> tree_copy]

\* the set whose listing _closure_branches returns (lines 1435-1444)
ClosureSet(N, is_grounded, branches) ==
  LET st == spanning_tree(N, is_grounded, branches)
  IN IF st.tree = <<>> THEN {} ELSE SeqToSet(st.loop) \ SeqToSet(st.tree)

\* _closure_branches: list(set(...)) of Branch objects, which hash by address,
\* so the order of the list is any order of the set
closure_branches_results(N, is_grounded, branches) ==
  Orderings(ClosureSet(N, is_grounded, branches))

----------------------------------------------------------------------------
(* The symbolic expressions, as far as the circuit's structure decides them *)

\* A numeric branch parameter p stands for the energy 1/(8p): the capacitance
\* matrix entry -1/(8*EC) of lines 1207-1213 is then the integer -p.
CapacitanceOf(b) ==
  IF b.type = "C" THEN b.parameters[1] ELSE b.parameters[2]

\* _capacitance_matrix (lines 1159-1225) of a circuit with numeric parameters
capacitance_matrix(N, is_grounded, branches) ==
  LET ids == IF is_grounded THEN 0..N ELSE 1..N
      caps == {i \in 1..Len(branches) :
                 /\ branches[i].type \in {"C", "JJ", "JJ2"}
                 /\ branches[i].nodes[1] # branches[i].nodes[2]}
      Sum[S \in SUBSET caps] ==
        IF S = {} THEN 0
        ELSE LET i == CHOOSE x \in S : TRUE
             IN Sum[S \ {i}] - CapacitanceOf(branches[i])
      \* C_mat after line 1216: the filled entries made symmetric
      off(a, b) == IF a = b THEN 0
                   ELSE Sum[{i \in caps : branches[i].nodes \in {<<a, b>>, <<b, a>>}}]
      RowSum[a \in ids, S \in SUBSET ids] ==
        IF S = {} THEN 0
        ELSE LET b == CHOOSE x \in S : TRUE
             IN RowSum[a, S \ {b}] + off(a, b)
  IN [a \in 1..N |-> [b \in 1..N |->
        IF a = b THEN 0 - RowSum[a, ids] ELSE off(a, b)]]

\* the flux difference across a branch in node variables (lines 1113-1126,
\* 1140-1156, 1270-1292): the coefficient of each node flux
NodeForm(N, b) ==
  [i \in 1..N |-> (IF b.nodes[2] = i THEN 1 ELSE 0) - (IF b.nodes[1] = i THEN 1 ELSE 0)]

\* the same difference after phi = T theta (lines 1519-1522)
ThetaForm(N, T, b) ==
  LET v == NodeForm(N, b)
      Dot[j \in 1..N, i \in 0..N] ==
        IF i = 0 THEN 0 ELSE Dot[j, i - 1] + v[i] * T[i][j]
  IN [j \in 1..N |-> Dot[j, N]]

\* phi_ext of a branch: the place of its external flux symbol, 0 for none
ExtOf(i, closure) ==
  IF InList(i, closure)
  THEN CHOOSE k \in 1..Len(closure) :
         closure[k] = i /\ \A j \in 1..(k - 1) : closure[j] # i
  ELSE 0

\* a cosine argument: factor * (theta . x + Phi_ext), with the sign that sympy's
\* cos (an even function) fixes: the first nonzero coefficient is positive
CosArg(theta, ext, factor) ==
  LET nz == {j \in 1..Len(theta) : theta[j] # 0}
      neg == nz # {} /\ theta[CHOOSE j \in nz : \A k \in nz : j <= k] < 0
  IN IF neg THEN [theta |-> [j \in 1..Len(theta) |-> 0 - factor * theta[j]],
                  ext |-> 0 - ext, factor |-> factor]
     ELSE [theta |-> [j \in 1..Len(theta) |-> factor * theta[j]],
           ext |-> ext, factor |-> factor]

ZeroVec(n) == [j \in 1..n |-> 0]

\* the distinct cosines of _junction_terms and _JJ2_terms (lines 1101-1157)
\* after the change of variables; cos(0) is the number 1 and is no cosine
CosineTerms(N, T, branches, closure) ==
  {a \in {CosArg(ThetaForm(N, T, branches[i]), ExtOf(i, closure),
                 IF branches[i].type = "JJ" THEN 1 ELSE 2) :
            i \in {k \in 1..Len(branches) : branches[k].type \in {"JJ", "JJ2"}}} :
     a.theta # ZeroVec(N) \/ a.ext # 0}

\* the rows of the inductive quadratic form: one flux difference per inductor
InductorForms(N, T, branches) ==
  LET ls == BranchesOfType(branches, {"L"})
  IN [k \in 1..Len(ls) |-> ThetaForm(N, T, ls[k])]

\* the columns of a list of rows picked by a list of column indices
Columns(rows, cols) ==
  [r \in 1..Len(rows) |-> [k \in 1..Len(cols) |-> rows[r][cols[k]]]]

\* Lines 1524-1532: each frozen variable is replaced by the root of
\* d potential / d theta_f = 0.  The inductive part is a sum of squares with
\* positive weights, so the derivative is not identically zero, and
\* sympy.solve returns a root, exactly when the frozen columns of the
\* inductive forms are linearly independent.
FrozenRootsExist(N, T, branches, frozen) ==
  matrix_rank(Columns(InductorForms(N, T, branches), frozen)) = Len(frozen)

\* potential_symbolic, as far as modelled: the distinct cosines and whether an
\* inductive (quadratic) part is left after the frozen variables are eliminated
PotentialOf(N, T, var_categories, branches, closure) ==
  [cos |-> CosineTerms(N, T, branches, closure),
   quadratic |-> matrix_rank(InductorForms(N, T, branches))
                   > Len(var_categories.frozen)]

NoExpr == [cos |-> {}, quadratic |-> FALSE]

\* a variant of generate_symbolic_lagrangian: a potential that is the int 0 is
\* accepted
generate_symbolic_lagrangian_anypotential(N, T, var_categories, branches, closure) ==
  IF ~FrozenRootsExist(N, T, branches, var_categories.frozen)
  THEN [raised |-> TRUE, potential |-> NoExpr]
  ELSE [raised |-> FALSE,
        potential |-> PotentialOf(N, T, var_categories, branches, closure)]

\* generate_symbolic_lagrangian (lines 1466-1536): the potential it returns,
\* or raised.  With no L, JJ or JJ2 branch the potential is the Python int 0,
\* and potential.copy() (line 1516) raises AttributeError.
generate_symbolic_lagrangian(N, T, var_categories, branches, closure) ==
  IF BranchesOfType(branches, {"L", "JJ", "JJ2"}) = <<>>
  THEN [raised |-> TRUE, potential |-> NoExpr]
  ELSE IF ~FrozenRootsExist(N, T, branches, var_categories.frozen)
  THEN [raised |-> TRUE, potential |-> NoExpr]
  ELSE [raised |-> FALSE,
        potential |-> PotentialOf(N, T, var_categories, branches, closure)]

\* the product T^T C T (lines 1564-1566, 1574-1576)
CongruentMatrix(N, T, C) ==
  LET CT[i \in 1..N, j \in 1..N, k \in 0..N] ==
        IF k = 0 THEN 0 ELSE CT[i, j, k - 1] + C[i][k] * T[k][j]
      M[i \in 1..N, j \in 1..N, k \in 0..N] ==
        IF k = 0 THEN 0 ELSE M[i, j, k - 1] + T[k][i] * CT[k, j, N]
  IN [i \in 1..N |-> [j \in 1..N |-> M[i, j, N]]]

\* the end of the Python slice 0:k of a list of n entries
SliceEnd(k, n) == IF k >= 0 THEN (IF k < n THEN k ELSE n)
                  ELSE (IF n + k > 0 THEN n + k ELSE 0)

\* an attribute that is None, or holds a value
None == <<>>
Some(x) == <<x>>

NoHamiltonian == [cos |-> {}, quadratic |-> FALSE, charges |-> {}]

\* generate_symbolic_hamiltonian (lines 1538-1610): the Hamiltonian, or raised;
\* potential is self.potential_symbolic (None or Some)
generate_symbolic_hamiltonian(N, is_grounded, branches, T, var_categories, potential) ==
  LET num_frozen_modes == IF is_grounded THEN Len(var_categories.frozen)
                          ELSE Len(var_categories.frozen) + 1
      k     == N - num_frozen_modes
      size  == SliceEnd(k, N)
      M     == CongruentMatrix(N, T, capacitance_matrix(N, is_grounded, branches))
      block == [i \in 1..size |-> [j \in 1..size |-> M[i][j]]]
      p_vars == IF k > 0 THEN k ELSE 0
  IN IF \/ det(block) = 0          \* the block has no inverse
        \/ p_vars # size           \* the shapes of C_mat and the momenta differ
        \/ potential = None        \* a number plus None
     THEN [raised |-> TRUE, hamiltonian |-> NoHamiltonian]
     ELSE [raised |-> FALSE,
           hamiltonian |->
             [cos |-> potential[1].cos, quadratic |-> potential[1].quadratic,
              charges |-> {i \in 1..p_vars : ~InList(i, var_categories.cyclic)}]]

----------------------------------------------------------------------------
(* parse_branch_parameter and SymbolicCircuit._parse_branches *)

\* A word of a branch descriptor is a list of characters.  A float is
\* [kind |-> "float", value], a sympy Symbol is [kind |-> "symbol", name].
Alphabet == {"a", "1", "="}

Float(value) == [kind |-> "float", value |-> value]

Symbol(name) == [kind |-> "symbol", name |-> name]

\* scqubits.utils.misc.is_float_string (imported at line 28): float(word) does
\* not fail; over Alphabet these are the words of digits
is_float_string(word) == word # <<>> /\ \A i \in 1..Len(word) : word[i] = "1"

\* float(word) of a word of digits
RECURSIVE FloatOf(_)
FloatOf(word) ==
  IF word = <<>> THEN 0 ELSE 10 * FloatOf(SubSeq(word, 1, Len(word) - 1)) + 1

\* word.split("=")
RECURSIVE Split(_)
Split(word) ==
  LET at == {i \in 1..Len(word) : word[i] = "="}
  IN IF at = {} THEN <<word>>
     ELSE LET i == CHOOSE x \in at : \A y \in at : x <= y
          IN <<SubSeq(word, 1, i - 1)>> \o Split(SubSeq(word, i + 1, Len(word)))

\* process_word (lines 31-34); sympy's symbols("") raises ValueError
process_word(word) ==
  IF is_float_string(word) THEN [raised |-> FALSE, value |-> Float(FloatOf(word))]
  ELSE IF word = <<>> THEN [raised |-> TRUE, value |-> Symbol(word)]
  ELSE [raised |-> FALSE, value |-> Symbol(word)]

\* parse_branch_parameter (lines 37-73)
parse_branch_parameter(word) ==
  IF ~is_float_string(word)
  THEN LET parts == Split(word)
       IN IF Len(parts) > 2 THEN [raised |-> TRUE, params |-> <<>>]
          ELSE IF Len(parts) = 2
          THEN [raised |-> process_word(parts[1]).raised \/ process_word(parts[2]).raised,
                params |-> <<process_word(parts[1]).value, process_word(parts[2]).value>>]
          ELSE [raised |-> process_word(word).raised,
                params |-> <<process_word(word).value>>]
  ELSE [raised |-> FALSE, params |-> <<Float(FloatOf(word))>>]

\* a branch descriptor: [type, node_id1, node_id2, word, ...]
Descriptor(branch_type, node_id1, node_id2, words) ==
  [type |-> branch_type, ids |-> <<node_id1, node_id2>>, words |-> words]

\* branch_var_dict, a dict in insertion order: key in dict, and dict[key] = value
InDict(dict, key) == \E i \in 1..Len(dict) : dict[i].key = key

DictSet(dict, key, value) ==
  IF InDict(dict, key)
  THEN [i \in 1..Len(dict) |-> IF dict[i].key = key THEN [key |-> key, value |-> value]
                                ELSE dict[i]]
  ELSE Append(dict, [key |-> key, value |-> value])

\* a variant of Declared: every name counts as initialised
DeclaredAlways(dict, param) == TRUE

\* the test of lines 493-496 and 509-512 passes
Declared(dict, param) == param.kind = "float" \/ InDict(dict, param)

\* the loop body of lines 489-503 (and of lines 507-521) for the words of one
\* descriptor, in order: the parameters, the dictionary, and whether it raised
RECURSIVE ParseWords(_, _, _)
ParseWords(words, branch_params, dict) ==
  IF words = <<>> THEN [raised |-> FALSE, parameters |-> branch_params, dict |-> dict]
  ELSE LET parsed == parse_branch_parameter(Head(words))
       IN IF parsed.raised THEN [raised |-> TRUE, parameters |-> branch_params, dict |-> dict]
          ELSE IF Len(parsed.params) = 1
          THEN IF ~Declared(dict, parsed.params[1])
               THEN [raised |-> TRUE, parameters |-> branch_params, dict |-> dict]
               ELSE ParseWords(Tail(words), Append(branch_params, parsed.params[1]), dict)
          ELSE ParseWords(Tail(words), Append(branch_params, parsed.params[1]),
                          DictSet(dict, parsed.params[1], parsed.params[2]))

\* nodes[k] of Python for the list of the nodes 1..N: the node, or 0 - 1 when
\* the index is out of range (IndexError)
NodeAt(N, k) ==
  IF k >= 0 /\ k < N THEN k + 1
  ELSE IF k < 0 /\ k >= 0 - N THEN N + k + 1
  ELSE 0 - 1

\* the end nodes of the new branch (lines 524-550)
EndNodes(N, node_id1, node_id2) ==
  IF node_id1 = 0 THEN <<0, NodeAt(N, node_id2 - 1)>>
  ELSE IF node_id2 = 0 THEN <<NodeAt(N, node_id1 - 1), 0>>
  ELSE <<NodeAt(N, node_id1 - 1), NodeAt(N, node_id2 - 1)>>

\* the wrong number of words for the type (lines 461-471)
WrongLength(d) ==
  \/ d.type \in {"JJ", "JJ2"} /\ Len(d.words) # 2
  \/ d.type \in {"L", "C"} /\ Len(d.words) # 1

\* the state of the loop of _parse_branches before the first descriptor
\* (lines 443-451); made counts the Node(0, 0) objects created, node_branches
\* are the branches lists of the nodes (Branch.__init__, lines 178-179)
ParseStart(N) ==
  [raised |-> FALSE, branches |-> <<>>, is_grounded |-> FALSE, made |-> 0,
   branch_var_dict |-> <<>>, node_branches |-> [n \in 0..N |-> <<>>]]

\* one iteration of the loop of _parse_branches (lines 456-550)
ParseOne(N, st, d) ==
  IF WrongLength(d) THEN [st EXCEPT !.raised = TRUE]
  ELSE LET ground == d.ids[1] * d.ids[2] = 0 /\ ~st.is_grounded
           st1    == IF ground THEN [st EXCEPT !.is_grounded = TRUE, !.made = @ + 1]
                     ELSE st
           \* branch_list_input[3:5] for a junction, branch_list_input[3] otherwise
           parsed == ParseWords(d.words, <<>>, st.branch_var_dict)
           ends   == EndNodes(N, d.ids[1], d.ids[2])
           index  == Len(st.branches) + 1
       IN IF parsed.raised \/ ends[1] < 0 \/ ends[2] < 0
          THEN [st1 EXCEPT !.raised = TRUE, !.branch_var_dict = parsed.dict]
          ELSE [st1 EXCEPT
                  !.branches = Append(@, Branch(ends[1], ends[2], d.type, parsed.parameters)),
                  !.branch_var_dict = parsed.dict,
                  !.node_branches =
                    [n \in 0..N |->
                       @[n] \o (IF ends[1] = n THEN <<index>> ELSE <<>>)
                            \o (IF ends[2] = n THEN <<index>> ELSE <<>>)]]

\* _parse_branches (lines 437-551): the loop over branches_list
RECURSIVE ParseLoop(_, _, _)
ParseLoop(N, st, branches_list) ==
  IF branches_list = <<>> \/ st.raised THEN st
  ELSE ParseLoop(N, ParseOne(N, st, Head(branches_list)), Tail(branches_list))

parse_branches(branches_list, N) == ParseLoop(N, ParseStart(N), branches_list)

----------------------------------------------------------------------------
(* SymbolicCircuit.update_param_init_val and SymbolicCircuit._capacitance_matrix *)

\* a variant of update_param_init_val: the value is bound to every parameter
update_param_init_val_every(vars, vals, param_name, value) ==
  [raised |-> FALSE, param_init_vals |-> [i \in 1..Len(vals) |-> value]]

\* update_param_init_val (lines 1092-1099): the bound values after the call,
\* and whether it raised.  The loop stops at the first parameter called
\* param_name; param.name of a parameter that is a float, not a Symbol, raises
\* AttributeError.
update_param_init_val(vars, vals, param_name, value) ==
  LET stops == {i \in 1..Len(vars) : vars[i].kind = "float" \/ vars[i].name = param_name}
      index == CHOOSE i \in stops : \A j \in stops : i <= j
  IN IF stops = {} THEN [raised |-> FALSE, param_init_vals |-> vals]
     ELSE IF vars[index].kind = "float" THEN [raised |-> TRUE, param_init_vals |-> vals]
     ELSE [raised |-> FALSE, param_init_vals |-> [vals EXCEPT ![index] = value]]

\* is_any_branch_parameter_symbolic (lines 317-318)
is_any_branch_parameter_symbolic(vars) == Len(vars) > 0

\* dict(zip(self.param_vars, self.param_init_vals)) (line 1183)
Zip(keys, values) ==
  LET n == IF Len(keys) < Len(values) THEN Len(keys) ELSE Len(values)
  IN [i \in 1..n |-> [key |-> keys[i], value |-> values[i]]]

\* dict[key] of a dict built from pairs: the last pair of that key
DictGet(dict, key) ==
  LET at == {i \in 1..Len(dict) : dict[i].key = key}
  IN dict[CHOOSE i \in at : \A j \in at : j <= i].value

\* the branches that _capacitance_matrix adds to C_mat (lines 1173-1175 and
\* 1198)
WithCapacitance(branch_list) ==
  SelectSeq(branch_list, LAMBDA b : b.type \in {"C", "JJ", "JJ2"} /\ b.nodes[1] # b.nodes[2])

\* branch.parameters["EC"] or branch.parameters["ECJ"] (lines 1176-1180 and
\* 1199-1201)
CapacitanceParameter(b) == IF b.type = "C" THEN b.parameters[1] ELSE b.parameters[2]

\* the local variable capacitance after lines 1199-1205, and whether the
\* addition of lines 1206-1213 raises: KeyError for a parameter that is not
\* in the dict, ZeroDivisionError for the number 0, TypeError for a Symbol
\* added to an array of floats
Capacitance(b, dict, numeric, substitute_params) ==
  LET parameter == CapacitanceParameter(b)
      looked_up == parameter.kind # "float" /\ substitute_params
      missing   == looked_up /\ ~InDict(dict, parameter)
      value     == IF looked_up /\ ~missing THEN DictGet(dict, parameter) ELSE parameter
  IN [raised |-> \/ missing
                 \/ (value.kind = "float" /\ value.value = 0)
                 \/ (numeric /\ value.kind = "symbol"),
      value  |-> value]

\* an entry of C_mat is a sum of terms sign / (8 * capacitance), kept as the
\* list of its terms in the order of the additions
Term(sign, capacitance) == [sign |-> sign, capacitance |-> capacitance]

\* C_mat[i, j] after the loop of lines 1197-1213, i and j being node ids
AddedTerms(caps, i, j) ==
  LET at == SelectSeq(caps, LAMBDA c : c.nodes[1] = i /\ c.nodes[2] = j)
  IN [k \in 1..Len(at) |-> Term(0 - 1, at[k].value)]

\* a variant of Symmetrised: the transpose is not added
SymmetrisedOneSided(caps, i, j) == AddedTerms(caps, i, j)

\* C_mat + C_mat.T - diag(C_mat.diagonal()) (lines 1215-1218)
Symmetrised(caps, i, j) ==
  IF i = j THEN AddedTerms(caps, i, i)
  ELSE AddedTerms(caps, i, j) \o AddedTerms(caps, j, i)

\* C_mat[i, i] = -np.sum(C_mat[i, :]) (lines 1220-1221), ids the node ids in
\* the order of the columns
Diagonal(caps, ids, i) ==
  LET row == Flatten([k \in 1..Len(ids) |-> Symmetrised(caps, i, ids[k])])
  IN [k \in 1..Len(row) |-> Term(0 - row[k].sign, row[k].capacitance)]

\* what _capacitance_matrix (lines 1159-1225) returns for a circuit whose
\* parameters are floats or Symbols: whether it raised, the matrix (row and
\* column k belong to node k; the row and the column of the ground node are
\* dropped, lines 1223-1224), and whether the matrix is one of sympy
CapacitanceMatrixReturns(N, grounded, branch_list, vars, vals, substitute_params) ==
  LET dict    == Zip(vars, vals)
      numeric == ~is_any_branch_parameter_symbolic(vars) \/ substitute_params
      with    == WithCapacitance(branch_list)
      caps    == [k \in 1..Len(with) |->
                    [nodes |-> with[k].nodes,
                     raised |-> Capacitance(with[k], dict, numeric, substitute_params).raised,
                     value |-> Capacitance(with[k], dict, numeric, substitute_params).value]]
      ids     == IF grounded THEN [k \in 1..(N + 1) |-> k - 1] ELSE [k \in 1..N |-> k]
  IN [raised |-> \E k \in 1..Len(caps) : caps[k].raised,
      sympy  |-> ~numeric,
      C_mat  |-> [i \in 1..N |-> [j \in 1..N |->
                    IF i = j THEN Diagonal(caps, ids, i) ELSE Symmetrised(caps, i, j)]],
      \* C_mat before lines 1223-1224: row and column k belong to node ids[k]
      full   |-> [a \in 1..Len(ids) |-> [b \in 1..Len(ids) |->
                    IF a = b THEN Diagonal(caps, ids, ids[a])
                    ELSE Symmetrised(caps, ids[a], ids[b])]]]

\* a variant of symbolic_capacitance_matrix: the looked-up values are written
\* into the parameters of the branches
symbolic_capacitance_matrix_inplace(N, grounded, branch_list, vars, vals, substitute_params) ==
  LET dict == Zip(vars, vals)
      substituted(b) ==
        IF substitute_params /\ b.type \in {"C", "JJ", "JJ2"}
           /\ InDict(dict, CapacitanceParameter(b))
        THEN [b EXCEPT !.parameters[Len(b.parameters)] = DictGet(dict, CapacitanceParameter(b))]
        ELSE b
  IN [returns  |-> CapacitanceMatrixReturns(N, grounded, branch_list, vars, vals,
                                            substitute_params),
      branches |-> [k \in 1..Len(branch_list) |-> substituted(branch_list[k])]]

\* _capacitance_matrix (lines 1159-1225): what it returns, and the branches
\* after the call: the looked-up value is bound to the local name capacitance,
\* the parameters of the branches are not assigned
symbolic_capacitance_matrix(N, grounded, branch_list, vars, vals, substitute_params) ==
  [returns  |-> CapacitanceMatrixReturns(N, grounded, branch_list, vars, vals,
                                         substitute_params),
   branches |-> branch_list]

----------------------------------------------------------------------------
(* The circuits the model is run on *)

\* the parameter lists of a branch of one type: one number for C and L, two
\* for JJ and JJ2 (Branch.set_parameters, lines 198-202)
ParametersOf(t, maxP) ==
  IF t \in {"C", "L"} THEN {<<p>> : p \in 1..maxP}
  ELSE {<<p, p>> : p \in 1..maxP}

\* every branch on the nodes 0..N, but ground to ground
BranchesOn(N, maxP) ==
  UNION {{Branch(n_i, n_f, t, ps) : n_i \in 0..N, n_f \in 0..N, ps \in ParametersOf(t, maxP)} :
           t \in BranchTypes}
  \ UNION {{Branch(0, 0, t, ps) : ps \in ParametersOf(t, maxP)} : t \in BranchTypes}

\* branch lists of at most n branches
RECURSIVE BranchLists(_, _)
BranchLists(S, n) ==
  IF n = 0 THEN {<<>>}
  ELSE LET shorter == BranchLists(S, n - 1)
       IN shorter \cup {Append(l, b) : l \in {x \in shorter : Len(x) = n - 1}, b \in S}

\* a circuit description: the node count and the branch list
Circuit(N, l) == [N |-> N, branches |-> l]

\* the circuits of at most maxN nodes and maxB branches; a description lists
\* at least one branch
Circuits(maxN, maxB, maxP) ==
  UNION {{Circuit(N, l) : l \in BranchLists(BranchesOn(N, maxP), maxB) \ {<<>>}} :
           N \in 1..maxN}

\* the circuits of the scenarios of the specification, and circuits of four nodes
Transmon == Circuit(2, <<Branch(1, 2, "C", <<1>>), Branch(1, 2, "JJ", <<1, 1>>)>>)

LCOscillator == Circuit(1, <<Branch(1, 0, "L", <<1>>), Branch(1, 0, "C", <<1>>)>>)

CapacitiveMeshes ==
  {Circuit(3, <<Branch(1, 2, "C", <<p>>), Branch(2, 3, "C", <<q>>), Branch(3, 1, "C", <<1>>)>>) :
     p \in 1..2, q \in 1..2}

Fluxonium ==
  Circuit(1, <<Branch(1, 0, "JJ", <<1, 1>>), Branch(1, 0, "L", <<1>>), Branch(1, 0, "C", <<1>>)>>)

FourNodeCircuits ==
  {Circuit(4, <<Branch(1, 2, "JJ", <<1, 1>>), Branch(2, 3, t, <<1, 1>>),
                Branch(3, 4, "JJ", <<2, 1>>), Branch(4, g, "L", <<1>>)>>) :
     t \in {"JJ", "JJ2"}, g \in {0, 1}}
  \cup {Circuit(4, <<Branch(1, 2, "C", <<1>>), Branch(3, 4, "C", <<1>>)>>),
        Circuit(4, <<Branch(1, 2, "JJ", <<1, 1>>), Branch(2, 3, "C", <<1>>),
                     Branch(3, 4, "L", <<1>>), Branch(0, 4, "C", <<1>>)>>)}

ScenarioCircuits ==
  {Transmon, LCOscillator, Fluxonium} \cup CapacitiveMeshes \cup FourNodeCircuits

\* bool(self.ground_node): _parse_branches makes the ground node at the first
\* branch with an end at node 0 (lines 473-484)
IsGrounded(branch_list) == 0 \in NodesOf(branch_list)

----------------------------------------------------------------------------
(* The state of one SymbolicCircuit instance *)

VARIABLES
  nodes,                  \* self.nodes, the list of the non-ground node ids
  branches,               \* self.branches
  basis_completion,       \* self.basis_completion
  transformation_matrix,  \* self.transformation_matrix (None, or its rows)
  var_categories,         \* self.var_categories (None, or the category map)
  closure_branches,       \* self.closure_branches, positions in self.branches
  external_fluxes,        \* self.external_fluxes: k stands for the symbol Phi_k
  offset_charges,         \* self.offset_charges: p stands for the symbol ng_p
  potential_symbolic,     \* self.potential_symbolic (None or the expression)
  hamiltonian_symbolic,   \* self.hamiltonian_symbolic (None or the expression)
  param_vars,             \* self.param_vars, the symbolic parameters
  param_init_vals,        \* self.param_init_vals, their bound values
  markers,                \* node.marker of the nodes, then of the ground node
  set_order,              \* the listing order of list(set(...)) of the
                          \* closure branches of this instance (None until used)
  earlier,                \* the closure_branches and external_fluxes of an
                          \* instance made before from the same description
                          \* and initialised (None when there is none)
  last_call,              \* the last call made and how it ended
  prev_call,              \* the call made before the last one
  calls                   \* the number of calls made

vars == <<nodes, branches, basis_completion, transformation_matrix, var_categories,
          closure_branches, external_fluxes, offset_charges, potential_symbolic,
          hamiltonian_symbolic, param_vars, param_init_vals, markers, set_order,
          earlier, last_call, prev_call, calls>>

is_grounded == IsGrounded(branches)

NoCall == [op |-> "none", raised |-> FALSE, args |-> None, result |-> None]

\* SymbolicCircuit.__init__ with initiate_sym_calc=False (lines 275-311)
Constructed(circuit, basis) ==
  /\ nodes = [i \in 1..circuit.N |-> i]
  /\ branches = circuit.branches
  /\ basis_completion = basis
  /\ transformation_matrix = None
  /\ var_categories = None
  /\ closure_branches = <<>>
  /\ external_fluxes = <<>>
  /\ offset_charges = <<>>
  /\ potential_symbolic = None
  /\ hamiltonian_symbolic = None
  /\ param_vars = <<>>
  /\ param_init_vals = <<>>
  /\ markers = [i \in 1..Len(NodesCopy(circuit.N, IsGrounded(circuit.branches))) |-> 0]
  /\ set_order = None
  /\ earlier = None
  /\ last_call = NoCall
  /\ prev_call = NoCall
  /\ calls = 0

LifeCircuits == Circuits(MaxLifeNodes, MaxBranches, MaxParam) \cup ScenarioCircuits

Init ==
  \E circuit \in LifeCircuits, basis \in {"simple", "standard"} :
    Constructed(circuit, basis)

\* the lists a caller may pass as closure_branches: distinct branches of the
\* circuit, at most two of them (the empty list counts as None, line 348)
ClosureArgs ==
  {l \in BranchLists(1..Len(branches), 2) : Len(l) = Cardinality(SeqToSet(l))}

\* the attributes that a call may leave as they are
Attributes ==
  [external_fluxes |-> external_fluxes, potential_symbolic |-> potential_symbolic,
   hamiltonian_symbolic |-> hamiltonian_symbolic]

\* a variant of IsEager: the Hamiltonian is computed whatever the node count
IsEagerAlways(N) == TRUE

\* the condition of lines 368-370 for computing the Hamiltonian at once
IsEager(N) == N <= EagerHamiltonianNodes

\* node.marker after variable_transformation_matrix or
\* check_transformation_matrix: their last _independent_modes call is the one
\* for the LC modes (lines 948-952 and 802-803)
LastMarkers(N, grounded, branch_list) ==
  NodeBranchSetIndices(N, grounded, BranchesOfType(branch_list, {"JJ"}))

\* the attributes after lines 347-373 of initiate_symboliccircuit, and whether
\* the call raised there.  T and categories are the transformation matrix and
\* the category map assigned before, arg is the closure_branches argument
\* (None or a list), computed the list that _closure_branches returns, old the
\* attributes before the call.
AfterTransformation(N, grounded, branch_list, T, categories, arg, computed, old) ==
  LET \* line 348, and again line 1449
      given    == IF arg # None /\ arg[1] # <<>> THEN arg[1] ELSE computed
      \* line 1450
      filtered == SelectSeq(given, LAMBDA i : branch_list[i].type # "C")
      \* lines 1452-1456: assigned only when the filtered list is not empty
      closure  == IF Len(filtered) > 0 THEN filtered ELSE given
      lag == generate_symbolic_lagrangian(N, T, categories, branch_list, closure)
      ham == generate_symbolic_hamiltonian(N, grounded, branch_list, T, categories,
                                           Some(lag.potential))
      eager == IsEager(N)
  IN [transformation_matrix |-> Some(T),
      var_categories        |-> Some(categories),
      markers               |-> LastMarkers(N, grounded, branch_list),
      closure_branches      |-> closure,
      external_fluxes       |-> IF Len(filtered) > 0
                                THEN [i \in 1..Len(filtered) |-> i]
                                ELSE old.external_fluxes,
      offset_charges        |-> categories.periodic,
      potential_symbolic    |-> IF lag.raised THEN old.potential_symbolic
                                ELSE Some(lag.potential),
      hamiltonian_symbolic  |-> IF ~lag.raised /\ eager /\ ~ham.raised
                                THEN Some(ham.hamiltonian)
                                ELSE old.hamiltonian_symbolic,
      raised                |-> lag.raised \/ (eager /\ ham.raised)]

\* lines 339-373 once variable_transformation_matrix has returned vt
AfterComputed(N, grounded, branch_list, vt, arg, computed, old) ==
  AfterTransformation(N, grounded, branch_list, vt.matrix, vt.var_categories, arg,
                      computed, old)

\* the attributes after initiate_symboliccircuit (lines 320-373) called with no
\* transformation matrix, and whether the call raised
initiate_symboliccircuit(N, grounded, branch_list, basis, arg, computed, old) ==
  AfterComputed(N, grounded, branch_list,
                variable_transformation_matrix(N, grounded, branch_list, basis),
                arg, computed, old)

\* the attributes after initiate_symboliccircuit(transformation_matrix=tm)
\* (lines 333-337 and 347-373) for a matrix that passed the test of line 779
initiate_with_matrix(N, grounded, branch_list, tm, computed, old) ==
  AfterTransformation(N, grounded, branch_list, tm,
                      classify_transformation_matrix(N, grounded, branch_list,
                                                     tm).var_categories_user,
                      None, computed, old)

\* the assignments of one initiate_symboliccircuit call
InitiateSymbolicCircuit(arg, after) ==
  /\ transformation_matrix' = after.transformation_matrix
  /\ var_categories' = after.var_categories
  /\ closure_branches' = after.closure_branches
  /\ external_fluxes' = after.external_fluxes
  /\ offset_charges' = after.offset_charges
  /\ potential_symbolic' = after.potential_symbolic
  /\ hamiltonian_symbolic' = after.hamiltonian_symbolic
  /\ markers' = after.markers
  /\ last_call' = [op |-> "initiate_symboliccircuit", raised |-> after.raised,
                   args |-> arg, result |-> None]
  /\ prev_call' = last_call

\* the list _closure_branches returns on this instance: the order of the set
\* is fixed the first time it is listed
ComputedClosure(order) ==
  /\ set_order # None => order = set_order[1]
  /\ set_order' = Some(order)
  /\ UNCHANGED earlier

\* initiate_symboliccircuit()
Initiate ==
  /\ calls < MaxCalls
  /\ calls' = calls + 1
  /\ \E computed \in closure_branches_results(Len(nodes), is_grounded, branches) :
       /\ ComputedClosure(computed)
       /\ InitiateSymbolicCircuit(None,
            initiate_symboliccircuit(Len(nodes), is_grounded, branches,
                                     basis_completion, None, computed, Attributes))
  /\ UNCHANGED <<nodes, branches, basis_completion, param_vars, param_init_vals>>

\* initiate_symboliccircuit(closure_branches=arg) with a non-empty list
InitiateWithClosure ==
  /\ calls < MaxCalls
  /\ calls' = calls + 1
  /\ \E arg \in ClosureArgs \ {<<>>} :
       InitiateSymbolicCircuit(Some(arg),
         initiate_symboliccircuit(Len(nodes), is_grounded, branches,
                                  basis_completion, Some(arg), <<>>, Attributes))
  /\ UNCHANGED <<nodes, branches, basis_completion, param_vars, param_init_vals,
                 set_order,
                 earlier>>

\* generate_symbolic_hamiltonian() asked for by the caller: the result is
\* returned, no attribute is assigned
GenerateHamiltonian ==
  /\ calls < MaxCalls
  /\ calls' = calls + 1
  /\ LET ham == IF transformation_matrix = None
                THEN [raised |-> TRUE, hamiltonian |-> NoHamiltonian]
                ELSE generate_symbolic_hamiltonian(Len(nodes), is_grounded, branches,
                       transformation_matrix[1], var_categories[1], potential_symbolic)
     IN last_call' = [op |-> "generate_symbolic_hamiltonian", raised |-> ham.raised,
                      args |-> None,
                      result |-> IF ham.raised THEN None ELSE Some(ham.hamiltonian)]
  /\ prev_call' = last_call
  /\ UNCHANGED <<nodes, branches, basis_completion, transformation_matrix,
                 var_categories, closure_branches, external_fluxes, offset_charges,
                 potential_symbolic, hamiltonian_symbolic, param_vars, param_init_vals,
                 markers, set_order,
                 earlier>>

\* the square matrices with entries of absolute value at most MaxEntry
EntryMatrices(N) == [1..N -> [1..N -> (0 - MaxEntry)..MaxEntry]]

\* a singular matrix whose LU factorisation rounds: numpy's determinant of it
\* is a residue of the order of 1e-16
RoundedSingular == <<<<1, 2, 3>>, <<4, 5, 6>>, <<7, 8, 9>>>>

\* the identity with its last row zeroed: singular, and nothing rounds
LastRowZero(N) == [i \in 1..N |-> [j \in 1..N |-> IF i = j /\ i < N THEN 1 ELSE 0]]

\* the matrices a caller supplies: all the small ones for the small circuits,
\* a regular and two singular ones for the larger circuits
SuppliedMatrices(N) ==
  IF N <= MaxLifeNodes THEN EntryMatrices(N)
  ELSE {Identity(N), LastRowZero(N)} \cup (IF N = 3 THEN {RoundedSingular} ELSE {})

\* initiate_symboliccircuit(transformation_matrix=tm) that raises at line 780:
\* no attribute is assigned
RaisedAtCheck(tm) ==
  /\ last_call' = [op |-> "initiate_symboliccircuit", raised |-> TRUE,
                   args |-> <<"transformation_matrix", tm>>, result |-> None]
  /\ prev_call' = last_call
  /\ UNCHANGED <<transformation_matrix, var_categories, closure_branches,
                 external_fluxes, offset_charges, potential_symbolic,
                 hamiltonian_symbolic, markers, set_order,
                 earlier>>

\* initiate_symboliccircuit(transformation_matrix=tm)
InitiateWithMatrix ==
  /\ calls < MaxCalls
  /\ calls' = calls + 1
  /\ \E tm \in SuppliedMatrices(Len(nodes)) :
       \E zero \in DetIsZero(tm) :
         IF zero THEN RaisedAtCheck(tm)
         ELSE \E computed \in closure_branches_results(Len(nodes), is_grounded, branches) :
                /\ ComputedClosure(computed)
                /\ InitiateSymbolicCircuit(<<"transformation_matrix", tm>>,
                     initiate_with_matrix(Len(nodes), is_grounded, branches, tm,
                                          computed, Attributes))
  /\ UNCHANGED <<nodes, branches, basis_completion, param_vars, param_init_vals>>

Next == Initiate \/ InitiateWithClosure \/ GenerateHamiltonian

Spec == Init /\ [][Next]_vars

\* initialisations, with and without a supplied matrix, of the circuits of the
\* scenarios
InitSupplied ==
  \E circuit \in ScenarioCircuits, basis \in {"simple", "standard"} :
    Constructed(circuit, basis)

NextSupplied == Initiate \/ InitiateWithMatrix

\* circuits with two or three closure branches: junctions and inductors in
\* parallel between node 1 and the ground or node 2, and two loops in a row
LoopCircuits ==
  {Circuit(IF g = 0 THEN 1 ELSE 2,
           <<Branch(1, g, "JJ", <<p, 1>>), Branch(1, g, t, <<2, 1>>),
             Branch(1, g, "L", <<q>>)>>) :
     g \in {0, 2}, t \in {"JJ", "JJ2"}, p \in {1, 3}, q \in 1..2}
  \cup {Circuit(IF g = 0 THEN 1 ELSE 2,
                <<Branch(1, g, "JJ", <<1, 1>>), Branch(1, g, "L", <<1>>),
                  Branch(1, g, "L", <<2>>), Branch(1, g, "JJ", <<2, 2>>)>>) :
          g \in {0, 2}}
  \cup {Circuit(2, <<Branch(1, 0, "JJ", <<1, 1>>), Branch(1, 0, "L", <<1>>),
                     Branch(1, 2, "JJ", <<2, 1>>), Branch(1, 2, "L", <<q>>)>>) :
          q \in 1..2}

InitLoops ==
  \E circuit \in LoopCircuits, basis \in {"simple", "standard"} :
    Constructed(circuit, basis)

\* a second instance made from the same description with the same
\* configuration (from_yaml and __init__ again): new Node and Branch objects,
\* no attribute computed yet.  The first instance's closure branches and flux
\* symbols are kept for comparison.
ConstructAgain ==
  /\ earlier = None
  /\ transformation_matrix # None
  /\ earlier' = Some([closure_branches |-> closure_branches,
                      external_fluxes |-> external_fluxes,
                      raised |-> last_call.raised])
  /\ transformation_matrix' = None
  /\ var_categories' = None
  /\ closure_branches' = <<>>
  /\ external_fluxes' = <<>>
  /\ offset_charges' = <<>>
  /\ potential_symbolic' = None
  /\ hamiltonian_symbolic' = None
  /\ markers' = [i \in DOMAIN markers |-> 0]
  /\ set_order' = None
  /\ last_call' = NoCall
  /\ prev_call' = NoCall
  /\ calls' = 0
  /\ UNCHANGED <<nodes, branches, basis_completion, param_vars, param_init_vals>>

NextLoops == Initiate \/ ConstructAgain

SpecLoops == InitLoops /\ [][NextLoops]_vars


SpecSupplied == InitSupplied /\ [][NextSupplied]_vars

-----------------------------------------------------------------------------
(* Calls of variable_transformation_matrix on freshly constructed circuits *)

VTCircuits == Circuits(MaxNodes, MaxBranches, MaxParam) \cup ScenarioCircuits

InitVT ==
  \E circuit \in VTCircuits, basis \in {"simple", "standard"} :
    Constructed(circuit, basis)

\* a call of a method that assigns no attribute of the circuit: the arguments
\* and the result
Returned(op, args, result) ==
  /\ last_call' = [op |-> op, raised |-> FALSE, args |-> args, result |-> Some(result)]
  /\ prev_call' = last_call
  /\ UNCHANGED <<nodes, branches, basis_completion, transformation_matrix,
                 var_categories, closure_branches, external_fluxes, offset_charges,
                 potential_symbolic, hamiltonian_symbolic, param_vars, param_init_vals,
                 set_order,
                 earlier>>

\* variable_transformation_matrix(): the matrix and the category map are returned
VariableTransformationMatrix ==
  /\ calls < 1
  /\ calls' = calls + 1
  /\ Returned("variable_transformation_matrix", None,
              variable_transformation_matrix(Len(nodes), is_grounded, branches,
                                             basis_completion))
  /\ markers' = LastMarkers(Len(nodes), is_grounded, branches)

NextVT == VariableTransformationMatrix

SpecVT == InitVT /\ [][NextVT]_vars

-----------------------------------------------------------------------------
(* Calls of _spanning_tree and of _closure_branches *)

\* circuits of inductors and junctions on two nodes and ground, of at most
\* MaxMeshBranches branches: loops, chains, parallel and shorted branches
MeshBranches ==
  {Branch(n_i, n_f, t, IF t = "L" THEN <<1>> ELSE <<1, 1>>) :
     n_i \in 0..2, n_f \in 0..2, t \in {"L", "JJ"}}
  \ {Branch(0, 0, t, IF t = "L" THEN <<1>> ELSE <<1, 1>>) : t \in {"L", "JJ"}}

MeshCircuits ==
  {c \in {Circuit(2, l) : l \in BranchLists(MeshBranches, MaxMeshBranches)} :
     Len(c.branches) = MaxMeshBranches}

TreeCircuits == VTCircuits \cup LoopCircuits \cup MeshCircuits

InitTree == \E circuit \in TreeCircuits : Constructed(circuit, "simple")

\* _spanning_tree(): the instance is left alone, the work is done on a copy
SpanningTree ==
  /\ calls < MaxCalls
  /\ calls' = calls + 1
  /\ Returned("_spanning_tree", None, spanning_tree(Len(nodes), is_grounded, branches))
  /\ UNCHANGED markers

\* _closure_branches(): the list is returned, nothing is stored
ClosureBranches ==
  /\ calls < MaxCalls
  /\ calls' = calls + 1
  /\ \E listing \in closure_branches_results(Len(nodes), is_grounded, branches) :
       Returned("_closure_branches", None, listing)
  /\ UNCHANGED markers

NextTree == SpanningTree \/ ClosureBranches

SpecTree == InitTree /\ [][NextTree]_vars

----------------------------------------------------------------------------
(* Calls of _independent_modes and of Branch.is_connected *)

\* _independent_modes and is_connected read the end nodes of the branches only:
\* circuits of capacitors, and one circuit with two shorted branches
ShortedCircuit ==
  Circuit(3, <<Branch(1, 2, "C", <<1>>), Branch(3, 3, "C", <<1>>),
               Branch(2, 2, "C", <<1>>)>>)

GraphCircuits ==
  {c \in Circuits(MaxNodes, MaxBranches, MaxParam) :
     \A i \in 1..Len(c.branches) : c.branches[i].type = "C"}
  \cup {ShortedCircuit}

InitGraph == \E circuit \in GraphCircuits : Constructed(circuit, "simple")

\* the branch subsets: lists of distinct branches of the circuit, in any order
BranchSubsets ==
  {l \in BranchLists(1..Len(branches), Len(branches)) :
     Len(l) = Cardinality(SeqToSet(l))}

\* the basisvec_entries that variable_transformation_matrix and
\* check_transformation_matrix pass (lines 630 and 951)
BasisvecEntries == {<<1, 0>>, <<-1, 1>>}

\* _independent_modes(branch_subset, single_nodes, basisvec_entries)
IndependentModes ==
  /\ calls < MaxCalls
  /\ calls' = calls + 1
  /\ \E subset \in BranchSubsets, single_nodes \in BOOLEAN,
        basisvec_entries \in BasisvecEntries :
       /\ Returned("_independent_modes",
                   [branch_subset |-> subset, single_nodes |-> single_nodes,
                    basisvec_entries |-> basisvec_entries],
                   independent_modes(Len(nodes), is_grounded,
                                     [k \in 1..Len(subset) |-> branches[subset[k]]],
                                     single_nodes, basisvec_entries[1],
                                     basisvec_entries[2]))
       /\ markers' = NodeBranchSetIndices(Len(nodes), is_grounded,
                        [k \in 1..Len(subset) |-> branches[subset[k]]])

NextModes == IndependentModes

SpecModes == InitGraph /\ [][NextModes]_vars

\* the modes tested: vectors of one entry per node, entries -1, 0 and 1
Modes(N) == [1..N -> (0 - MaxEntry)..MaxEntry]

\* _mode_in_subspace(mode, subspace) on the list that _independent_modes has
\* just returned
ModeInSubspace ==
  /\ last_call.op = "_independent_modes"
  /\ calls < MaxCalls
  /\ calls' = calls + 1
  /\ \E mode \in Modes(Len(nodes)) :
       Returned("_mode_in_subspace",
                [mode |-> mode, subspace |-> last_call.result[1]],
                mode_in_subspace(mode, last_call.result[1]))
  /\ UNCHANGED markers

NextSubspace == IndependentModes \/ ModeInSubspace

SpecSubspace == InitGraph /\ [][NextSubspace]_vars

\* The loops of lines 651-670, step by step.  While _independent_modes runs,
\* last_call.result holds its locals: the place in the code, branch_subset_copy,
\* max_connected_subgraph and max_connected_subgraphs.  A Branch object of the
\* lists is the branch with its position in self.branches, so that two equal
\* parallel branches are two objects.
BranchObject(k) ==
  [type |-> branches[k].type, nodes |-> branches[k].nodes,
   parameters |-> branches[k].parameters, position |-> k]

\* capacitors on the nodes 0..MaxNodes, MaxMeshBranches of them: parallel,
\* shorted and ground-touching branches in every order
PartitionCircuits ==
  {Circuit(MaxNodes, l) :
     l \in {x \in BranchLists({Branch(n_i, n_f, "C", <<1>>) :
                                 n_i \in 0..MaxNodes, n_f \in 0..MaxNodes}
                              \ {Branch(0, 0, "C", <<1>>)}, MaxMeshBranches) :
              Len(x) = MaxMeshBranches}}

InitPartition == \E circuit \in PartitionCircuits : Constructed(circuit, "simple")

Locals(at, branch_subset_copy, max_connected_subgraph, max_connected_subgraphs) ==
  [at |-> at, branch_subset_copy |-> branch_subset_copy,
   max_connected_subgraph |-> max_connected_subgraph,
   max_connected_subgraphs |-> max_connected_subgraphs]

\* a step of the running call
Running(branch_subset, locals) ==
  /\ last_call' = [op |-> "_independent_modes", raised |-> FALSE,
                   args |-> [branch_subset |-> branch_subset],
                   result |-> Some(locals)]
  /\ UNCHANGED <<nodes, branches, basis_completion, transformation_matrix,
                 var_categories, closure_branches, external_fluxes, offset_charges,
                 potential_symbolic, hamiltonian_symbolic, param_vars, param_init_vals,
                 set_order, earlier, prev_call>>

InLoop(at) ==
  /\ last_call.op = "_independent_modes"
  /\ last_call.result # None
  /\ last_call.result[1].at = at

\* lines 641-653: the markers are reset and the subset is copied
PartitionStart ==
  /\ calls < 1
  /\ calls' = calls + 1
  /\ markers' = [i \in 1..Len(NodesCopy(Len(nodes), is_grounded)) |-> 0]
  /\ \E subset \in BranchSubsets :
       Running(subset,
               Locals("while", [k \in 1..Len(subset) |-> BranchObject(subset[k])],
                      <<>>, <<>>))

\* lines 655-659: the first branch of the copy starts a subgraph
PopFirst ==
  /\ InLoop("while")
  /\ last_call.result[1].branch_subset_copy # <<>>
  /\ Running(last_call.args.branch_subset,
             Locals("inner", Tail(last_call.result[1].branch_subset_copy),
                    <<Head(last_call.result[1].branch_subset_copy)>>,
                    last_call.result[1].max_connected_subgraphs))
  /\ UNCHANGED <<markers, calls>>

\* lines 661-669: one pass of the for loop over branch_subset_copy, made while
\* the subgraph and the copy share a node
ForLoop ==
  /\ InLoop("inner")
  /\ ~are_branchsets_disconnected(last_call.result[1].max_connected_subgraph,
                                  last_call.result[1].branch_subset_copy)
  /\ LET r == ForPass(last_call.result[1].max_connected_subgraph,
                      last_call.result[1].branch_subset_copy, 1)
     IN Running(last_call.args.branch_subset,
                Locals("inner", r[2], r[1], last_call.result[1].max_connected_subgraphs))
  /\ UNCHANGED <<markers, calls>>

\* line 670: the subgraph shares no node with the copy and is appended
AppendSubgraph ==
  /\ InLoop("inner")
  /\ are_branchsets_disconnected(last_call.result[1].max_connected_subgraph,
                                 last_call.result[1].branch_subset_copy)
  /\ Running(last_call.args.branch_subset,
             Locals("while", last_call.result[1].branch_subset_copy, <<>>,
                    Append(last_call.result[1].max_connected_subgraphs,
                           last_call.result[1].max_connected_subgraph)))
  /\ UNCHANGED <<markers, calls>>

\* line 655: the copy is empty and the while loop is left
PartitionEnd ==
  /\ InLoop("while")
  /\ last_call.result[1].branch_subset_copy = <<>>
  /\ Running(last_call.args.branch_subset,
             Locals("after", <<>>, <<>>, last_call.result[1].max_connected_subgraphs))
  /\ UNCHANGED <<markers, calls>>

NextPartition ==
  PartitionStart \/ PopFirst \/ ForLoop \/ AppendSubgraph \/ PartitionEnd

\* the interpreter goes on running the call
SpecPartition == InitPartition /\ [][NextPartition]_vars /\ WF_vars(NextPartition)

\* b1.is_connected(b2) for two branches of the circuit
IsConnected ==
  /\ calls < 1
  /\ calls' = calls + 1
  /\ \E b1 \in 1..Len(branches), b2 \in 1..Len(branches) :
       Returned("is_connected", <<b1, b2>>, is_connected(branches[b1], branches[b2]))
  /\ UNCHANGED markers

NextBranch == IsConnected

SpecBranch == InitGraph /\ [][NextBranch]_vars

-----------------------------------------------------------------------------
(* Calls of check_transformation_matrix on freshly constructed circuits *)

\* what one check_transformation_matrix call returns, and the mode types it
\* warned about on the way
CheckReturns(compared) ==
  [var_categories |-> compared.var_categories_user,
   computed       |-> compared.var_categories_circuit,
   warnings       |-> WarnedModes(compared)]

\* the end of a check_transformation_matrix(tm) call: it raised at line 780,
\* or it returned
CheckEnds(tm, zero, returns) ==
  /\ last_call' = [op |-> "check_transformation_matrix", raised |-> zero,
                   args |-> Some(tm), result |-> IF zero THEN None ELSE Some(returns)]
  /\ markers' = IF zero THEN markers
                ELSE LastMarkers(Len(nodes), is_grounded, branches)

\* the matrix variable_transformation_matrix computes for the circuit
ComputedMatrix ==
  variable_transformation_matrix(Len(nodes), is_grounded, branches,
                                 basis_completion).matrix

\* check_transformation_matrix(tm)
CheckTransformationMatrix ==
  /\ calls < 1
  /\ calls' = calls + 1
  /\ \E tm \in SuppliedMatrices(Len(nodes)) \cup {ComputedMatrix} :
       \E zero \in DetIsZero(tm) :
         CheckEnds(tm, zero,
                   CheckReturns(classify_transformation_matrix(Len(nodes), is_grounded,
                                                               branches, tm)))
  /\ prev_call' = last_call
  /\ UNCHANGED <<nodes, branches, basis_completion, transformation_matrix,
                 var_categories, closure_branches, external_fluxes, offset_charges,
                 potential_symbolic, hamiltonian_symbolic, param_vars, param_init_vals,
                 set_order,
                 earlier>>

NextCheck == CheckTransformationMatrix

SpecCheck == Init /\ [][NextCheck]_vars

-----------------------------------------------------------------------------
(* SymbolicCircuit.from_yaml on lists of branch descriptors *)

\* before from_yaml has returned there is no instance
NoInstance ==
  /\ nodes = <<>>
  /\ branches = <<>>
  /\ basis_completion = "simple"
  /\ transformation_matrix = None
  /\ var_categories = None
  /\ closure_branches = <<>>
  /\ external_fluxes = <<>>
  /\ offset_charges = <<>>
  /\ potential_symbolic = None
  /\ hamiltonian_symbolic = None
  /\ param_vars = <<>>
  /\ param_init_vals = <<>>
  /\ markers = <<>>
  /\ set_order = None
  /\ earlier = None
  /\ last_call = NoCall
  /\ prev_call = NoCall
  /\ calls = 0

\* the words over Alphabet of at most MaxWordLen characters
Words == UNION {[1..n -> Alphabet] : n \in 1..MaxWordLen}

\* the word "1"
One == <<"1">>

\* the words of a descriptor with numbers for its parameters
NumberWords(t) == IF t \in {"JJ", "JJ2"} THEN <<One, One>> ELSE <<One>>

\* the inputs with numeric parameters: every type and every pair of node ids
\* in 0..N
NodeInputs ==
  UNION {{[N |-> N, branches_list |-> l] :
            l \in BranchLists({Descriptor(t, i, j, NumberWords(t)) :
                                 t \in BranchTypes, i \in 0..N, j \in 0..N},
                              MaxBranches) \ {<<>>}} :
           N \in 1..MaxLifeNodes}

\* the inputs on one node and ground: a capacitor or a junction, alone or
\* after a capacitor, with any words, and descriptors with a word too many or
\* too few
WordInputs ==
  LET capacitors == {Descriptor("C", 1, 0, <<w>>) : w \in Words}
      junctions  == {Descriptor("JJ", 1, 0, <<w1, w2>>) : w1 \in Words, w2 \in Words}
      malformed  == {Descriptor("C", 1, 0, <<w, One>>) : w \in Words}
                    \cup {Descriptor("JJ", 1, 0, <<w>>) : w \in Words}
      last       == capacitors \cup junctions \cup malformed
  IN {[N |-> 1, branches_list |-> <<d>>] : d \in last}
     \cup {[N |-> 1, branches_list |-> <<c, d>>] : c \in capacitors, d \in last}

ParseInputs == NodeInputs \cup WordInputs

\* the instance that from_yaml(initiate_sym_calc=False) returns when
\* _parse_branches returned parsed (lines 610-623 and 275-311), as the next
\* state
FromYamlReturns(N, parsed) ==
  /\ nodes' = [i \in 1..N |-> i]
  /\ branches' = parsed.branches
  /\ param_vars' = [i \in 1..Len(parsed.branch_var_dict) |-> parsed.branch_var_dict[i].key]
  /\ param_init_vals' =
       [i \in 1..Len(parsed.branch_var_dict) |-> parsed.branch_var_dict[i].value]
  /\ markers' = [i \in 1..Len(NodesCopy(N, parsed.is_grounded)) |-> 0]
  /\ UNCHANGED <<basis_completion, transformation_matrix, var_categories,
                 closure_branches, external_fluxes, offset_charges,
                 potential_symbolic, hamiltonian_symbolic, set_order,
                 earlier>>

\* from_yaml(input, initiate_sym_calc=False): the result records what
\* _parse_branches built besides the branches
FromYaml ==
  /\ nodes = <<>>
  /\ calls < 1
  /\ calls' = calls + 1
  /\ \E input \in ParseInputs :
       LET parsed == parse_branches(input.branches_list, input.N)
       IN /\ last_call' = [op |-> "from_yaml", raised |-> parsed.raised, args |-> Some(input),
                           result |-> IF parsed.raised THEN None
                                      ELSE Some([ground_nodes |-> parsed.made,
                                                 node_branches |-> parsed.node_branches])]
          /\ prev_call' = last_call
          /\ IF parsed.raised
             THEN UNCHANGED <<nodes, branches, basis_completion, transformation_matrix,
                              var_categories, closure_branches, external_fluxes,
                              offset_charges, potential_symbolic, hamiltonian_symbolic,
                              param_vars, param_init_vals, markers, set_order,
                 earlier>>
             ELSE FromYamlReturns(input.N, parsed)

NextParse == FromYaml

SpecParse == NoInstance /\ [][NextParse]_vars

-----------------------------------------------------------------------------
(* update_param_init_val and _capacitance_matrix on circuits with symbolic
   parameters *)

\* the words "1", "11", "a", "aa", "a=1", "aa=11", "a=a" and "1=1"
NameA == <<"a">>
NameAA == <<"a", "a">>
WordADeclared == <<"a", "=", "1">>
WordAADeclared == <<"a", "a", "=", "1", "1">>
WordASymbol == <<"a", "=", "a">>
WordNumberDeclared == <<"1", "=", "1">>

\* the words of a descriptor whose capacitance is the word w
CapacitanceWords(t, w) == IF t = "C" THEN <<w>> ELSE <<One, w>>

\* the inputs: two nodes, a capacitor or a junction between them, and possibly
\* a second one to ground, between the nodes or shorted at node 2
ParamInputs ==
  LET first  == {Descriptor(t, 1, 2, CapacitanceWords(t, w)) :
                   t \in {"C", "JJ"},
                   w \in {One, WordADeclared, WordASymbol, WordNumberDeclared}}
      second == {Descriptor(t, ij[1], ij[2], CapacitanceWords(t, w)) :
                   t \in {"C", "JJ"}, ij \in {<<1, 0>>, <<2, 1>>, <<2, 2>>},
                   w \in {One, NameA, WordAADeclared}}
  IN {[N |-> 2, branches_list |-> <<d>>] : d \in first}
     \cup {[N |-> 2, branches_list |-> <<d, e>>] : d \in first, e \in second}

\* the instance that from_yaml(initiate_sym_calc=False) returned for an input
\* that parsed (lines 610-623 and 275-311)
Built(N, parsed) ==
  /\ nodes = [i \in 1..N |-> i]
  /\ branches = parsed.branches
  /\ basis_completion = "simple"
  /\ transformation_matrix = None
  /\ var_categories = None
  /\ closure_branches = <<>>
  /\ external_fluxes = <<>>
  /\ offset_charges = <<>>
  /\ potential_symbolic = None
  /\ hamiltonian_symbolic = None
  /\ param_vars = [i \in 1..Len(parsed.branch_var_dict) |-> parsed.branch_var_dict[i].key]
  /\ param_init_vals = [i \in 1..Len(parsed.branch_var_dict) |-> parsed.branch_var_dict[i].value]
  /\ markers = [i \in 1..Len(NodesCopy(N, parsed.is_grounded)) |-> 0]
  /\ set_order = None
  /\ earlier = None
  /\ last_call = NoCall
  /\ prev_call = NoCall
  /\ calls = 0

InitParams ==
  \E input \in ParamInputs :
    /\ ~parse_branches(input.branches_list, input.N).raised
    /\ Built(input.N, parse_branches(input.branches_list, input.N))

\* the names and the values update_param_init_val is called with
ParamNames == {NameA, NameAA}
ParamValues == {Float(0), Float(2)}

\* update_param_init_val(param_name, value)
UpdateParamInitVal ==
  /\ calls < MaxCalls + 1
  /\ calls' = calls + 1
  /\ \E param_name \in ParamNames, value \in ParamValues :
       LET updated == update_param_init_val(param_vars, param_init_vals, param_name, value)
       IN /\ param_init_vals' = updated.param_init_vals
          /\ last_call' = [op |-> "update_param_init_val", raised |-> updated.raised,
                           args |-> <<param_name, value>>, result |-> None]
  /\ prev_call' = last_call
  /\ UNCHANGED <<nodes, branches, basis_completion, transformation_matrix,
                 var_categories, closure_branches, external_fluxes, offset_charges,
                 potential_symbolic, hamiltonian_symbolic, param_vars, markers,
                 set_order, earlier>>

\* what a _capacitance_matrix call leaves behind
CapacitanceMatrixEnds(substitute_params, after) ==
  /\ branches' = after.branches
  /\ last_call' = [op |-> "_capacitance_matrix", raised |-> after.returns.raised,
                   args |-> Some(substitute_params),
                   result |-> IF after.returns.raised THEN None
                              ELSE Some([C_mat |-> after.returns.C_mat,
                                         sympy |-> after.returns.sympy])]

\* _capacitance_matrix(substitute_params)
CapacitanceMatrix ==
  /\ calls < MaxCalls + 1
  /\ calls' = calls + 1
  /\ \E substitute_params \in BOOLEAN :
       CapacitanceMatrixEnds(substitute_params,
                             symbolic_capacitance_matrix(Len(nodes), is_grounded, branches, param_vars,
                                                param_init_vals, substitute_params))
  /\ prev_call' = last_call
  /\ UNCHANGED <<nodes, basis_completion, transformation_matrix, var_categories,
                 closure_branches, external_fluxes, offset_charges,
                 potential_symbolic, hamiltonian_symbolic, param_vars,
                 param_init_vals, markers, set_order, earlier>>

NextParams == UpdateParamInitVal \/ CapacitanceMatrix

SpecParams == InitParams /\ [][NextParams]_vars

----------------------------------------------------------------------------
(* _capacitance_matrix on circuits whose parameters are numbers *)

\* capacitors and junctions on two nodes and ground with the charging energies
\* 1.0 and 2.0, shorted and parallel branches included
CapacitiveBranches ==
  {Branch(n_i, n_f, t, IF t = "C" THEN <<Float(c)>> ELSE <<Float(1), Float(c)>>) :
     n_i \in 0..2, n_f \in 0..2, t \in {"C", "JJ"}, c \in 1..MaxEnergy}
  \ {Branch(0, 0, t, IF t = "C" THEN <<Float(c)>> ELSE <<Float(1), Float(c)>>) :
       t \in {"C", "JJ"}, c \in 1..MaxEnergy}

CapacitiveCircuits ==
  {Circuit(2, l) : l \in BranchLists(CapacitiveBranches, MaxMeshBranches) \ {<<>>}}

InitCapacitance == \E circuit \in CapacitiveCircuits : Constructed(circuit, "simple")

\* _capacitance_matrix(substitute_params) of a circuit without symbols: the
\* matrix returned and the matrix before the row and column of ground are cut
NumericCapacitanceMatrix ==
  /\ calls < 1
  /\ calls' = calls + 1
  /\ \E substitute_params \in BOOLEAN :
       LET returns == CapacitanceMatrixReturns(Len(nodes), is_grounded, branches,
                                               param_vars, param_init_vals,
                                               substitute_params)
       IN /\ ~returns.raised
          /\ Returned("_capacitance_matrix", Some(substitute_params),
                      [C_mat |-> returns.C_mat, full |-> returns.full,
                       sympy |-> returns.sympy])
  /\ UNCHANGED markers

NextCapacitance == NumericCapacitanceMatrix

SpecCapacitance == InitCapacitance /\ [][NextCapacitance]_vars

----------------------------------------------------------------------------
(* Properties of variable_transformation_matrix, under SpecVT *)

\* the last call returned from variable_transformation_matrix
ReturnedVT == last_call.op = "variable_transformation_matrix"

\* column j of a matrix given by its rows
Column(m, j) == [i \in 1..Len(m) |-> m[i][j]]

\* the active coordinate range: 1..N, without the column of the sum mode when
\* the circuit is not grounded
ActiveRange(T) ==
  LET N == Len(nodes)
  IN IF is_grounded THEN 1..N
     ELSE {j \in 1..N : Column(T, j) # SigmaVec(N)}

\* C1: for either basis completion, variable_transformation_matrix returns a
\* square N x N matrix, N the number of non-ground nodes, whose determinant
\* is not zero.
C1_SquareNonsingular ==
  ReturnedVT =>
    LET T == last_call.result[1].matrix
        N == Len(nodes)
    IN /\ Len(T) = N
       /\ \A r \in 1..N : Len(T[r]) = N
       /\ det(T) # 0

\* C1 witness: the matrix of an ungrounded three-node circuit with a junction,
\* completed with the "standard" basis, has been returned
C1_Witness ==
  /\ ReturnedVT
  /\ Len(nodes) = 3
  /\ ~is_grounded
  /\ basis_completion = "standard"
  /\ \E i \in 1..Len(branches) : branches[i].type = "JJ"

\* C2 as amended: the index sets of periodic, extended, cyclic and frozen are
\* pairwise disjoint and their union is the active coordinate range; the
\* oscillator indices are extended indices.
C2_PartitionWithOscInExtended ==
  ReturnedVT =>
    LET vc  == last_call.result[1].var_categories
        set(name) == SeqToSet(vc[name])
        four == {"periodic", "extended", "cyclic", "frozen"}
    IN /\ \A a \in four, b \in four : a # b => set(a) \cap set(b) = {}
       /\ UNION {set(a) : a \in four} = ActiveRange(last_call.result[1].matrix)
       /\ set("osc") \subseteq set("extended")

\* C2 witness: a category map with an oscillator index and a periodic index has
\* been returned for an ungrounded circuit
C2_Witness ==
  /\ ReturnedVT
  /\ ~is_grounded
  /\ last_call.result[1].var_categories.osc # <<>>
  /\ last_call.result[1].var_categories.periodic # <<>>

\* C2 as stated: the five index sets (periodic, extended, cyclic, frozen, osc)
\* are pairwise disjoint and their union is the active coordinate range.
C2_AsStated ==
  ReturnedVT =>
    LET vc  == last_call.result[1].var_categories
        set(name) == SeqToSet(vc[name])
        five == {"periodic", "extended", "cyclic", "frozen", "osc"}
    IN /\ \A a \in five, b \in five : a # b => set(a) \cap set(b) = {}
       /\ UNION {set(a) : a \in five} = ActiveRange(last_call.result[1].matrix)

\* the all-capacitive mesh: three nodes, no ground, capacitors only, none of
\* them shorted, every node at an end of one of them
IsCapacitiveMesh ==
  /\ Len(nodes) = 3
  /\ ~is_grounded
  /\ \A i \in 1..Len(branches) :
       branches[i].type = "C" /\ branches[i].nodes[1] # branches[i].nodes[2]
  /\ NodesOf(branches) = {1, 2, 3}

\* C6 as amended: for the all-capacitive mesh every transformed coordinate but
\* the one of the sum mode is in the cyclic category; the periodic, extended
\* and frozen categories are empty.
C6_MeshCoordinatesCyclic ==
  (ReturnedVT /\ IsCapacitiveMesh) =>
    LET vc == last_call.result[1].var_categories
    IN /\ SeqToSet(vc.cyclic) = ActiveRange(last_call.result[1].matrix)
       /\ Cardinality(SeqToSet(vc.cyclic)) = 2
       /\ vc.periodic = <<>>
       /\ vc.extended = <<>>
       /\ vc.frozen = <<>>

\* C6 witness: the category map of the triangle of capacitors has been returned
C6_Witness ==
  /\ ReturnedVT
  /\ IsCapacitiveMesh
  /\ Len(branches) = 3

\* C6 as stated: for the all-capacitive mesh every transformed coordinate but
\* the one of the sum mode is in the frozen category; the periodic, extended
\* and cyclic categories are empty.
C6_AsStated ==
  (ReturnedVT /\ IsCapacitiveMesh) =>
    LET vc == last_call.result[1].var_categories
    IN /\ SeqToSet(vc.frozen) = ActiveRange(last_call.result[1].matrix)
       /\ vc.periodic = <<>>
       /\ vc.extended = <<>>
       /\ vc.cyclic = <<>>

-----------------------------------------------------------------------------
(* Properties of Branch.is_connected, under SpecBranch *)

\* C10 as stated: b1.is_connected(b2) is true if and only if b1 and b2 share
\* at least one end node, shorted branches included.
C10_AsStated ==
  last_call.op = "is_connected" =>
    LET b1 == branches[last_call.args[1]]
        b2 == branches[last_call.args[2]]
    IN last_call.result[1] <=> (NodeSet(b1) \cap NodeSet(b2) # {})

\* C10 witness: is_connected has answered for a shorted branch and a branch
\* that has no end node in common with it
C10_Witness ==
  /\ last_call.op = "is_connected"
  /\ LET b1 == branches[last_call.args[1]]
         b2 == branches[last_call.args[2]]
     IN /\ Cardinality(NodeSet(b1)) = 1
        /\ NodeSet(b1) \cap NodeSet(b2) = {}

-----------------------------------------------------------------------------
(* Properties of _independent_modes, under SpecModes *)

\* the last two calls were _independent_modes calls with the same flag and
\* entries, the branch subset of one a permutation of the other's
PermutedModesCalls ==
  /\ last_call.op = "_independent_modes"
  /\ prev_call.op = "_independent_modes"
  /\ last_call.args.single_nodes = prev_call.args.single_nodes
  /\ last_call.args.basisvec_entries = prev_call.args.basisvec_entries
  /\ Len(last_call.args.branch_subset) = Len(prev_call.args.branch_subset)
  /\ SeqToSet(last_call.args.branch_subset) = SeqToSet(prev_call.args.branch_subset)

\* C4 as stated: _independent_modes returns the same list of mode vectors for
\* a branch subset and for every permutation of it.
C4_AsStated ==
  PermutedModesCalls => last_call.result = prev_call.result

\* C4 witness: _independent_modes has been called on a subset of three
\* branches and on a different ordering of it
C4_Witness ==
  /\ PermutedModesCalls
  /\ Len(last_call.args.branch_subset) = 3
  /\ last_call.args.branch_subset # prev_call.args.branch_subset

-----------------------------------------------------------------------------
(* Properties of the life of a circuit, under Spec *)

\* the last call was initiate_symboliccircuit
Initiated == last_call.op = "initiate_symboliccircuit"

\* the circuit has been initialised: one initiate_symboliccircuit() call, with
\* no closure branches given, has been made
Initialised == Initiated /\ calls = 1 /\ last_call.args = None

\* C3 as stated: after any sequence of initiate_symboliccircuit calls, with or
\* without a caller's closure-branch list, closure_branches holds no capacitor
\* and external_fluxes is as long as closure_branches.
C3_AsStated ==
  (Initiated /\ ~last_call.raised) =>
    /\ \A k \in 1..Len(closure_branches) : branches[closure_branches[k]].type # "C"
    /\ Len(external_fluxes) = Len(closure_branches)

\* C3 witness: initiate_symboliccircuit has returned for a caller's list of
\* closure branches that holds a capacitor
C3_Witness ==
  /\ Initiated
  /\ ~last_call.raised
  /\ last_call.args # None
  /\ \E k \in 1..Len(last_call.args[1]) : branches[last_call.args[1][k]].type = "C"

\* the circuit is the transmon: two nodes, no ground, a capacitor and a
\* junction between the nodes 1 and 2
IsTransmon == Len(nodes) = 2 /\ branches = Transmon.branches

\* C5 as amended: initialising the transmon yields no closure branch and no
\* external-flux symbol, and a Hamiltonian with exactly one cosine term.
C5_TransmonNoClosureOneCosine ==
  (IsTransmon /\ Initialised) =>
    /\ ~last_call.raised
    /\ closure_branches = <<>>
    /\ external_fluxes = <<>>
    /\ hamiltonian_symbolic # None
    /\ Cardinality(hamiltonian_symbolic[1].cos) = 1

\* C5 witness: the transmon has been initialised
C5_Witness == IsTransmon /\ Initialised /\ hamiltonian_symbolic # None

\* C5 as stated: initialising the transmon yields exactly one closure branch
\* and one external-flux symbol, and a Hamiltonian with one cosine term.
C5_AsStated ==
  (IsTransmon /\ Initialised) =>
    /\ Len(closure_branches) = 1
    /\ Len(external_fluxes) = 1
    /\ hamiltonian_symbolic # None
    /\ Cardinality(hamiltonian_symbolic[1].cos) = 1

\* the circuit has three nodes and capacitor branches only
IsThreeNodeCapacitive ==
  /\ Len(nodes) = 3
  /\ \A i \in 1..Len(branches) : branches[i].type = "C"

IsLCOscillator == Len(nodes) = 1 /\ branches = LCOscillator.branches

\* C8: for the initialised LC oscillator there is no frozen index, one extended
\* index that is also the one oscillator index, no closure branch, and the
\* potential is quadratic with no cosine term.
C8_LCOscillator ==
  (IsLCOscillator /\ Initialised) =>
    /\ ~last_call.raised
    /\ var_categories[1].frozen = <<>>
    /\ Len(var_categories[1].extended) = 1
    /\ var_categories[1].osc = var_categories[1].extended
    /\ closure_branches = <<>>
    /\ potential_symbolic # None
    /\ potential_symbolic[1].cos = {}
    /\ potential_symbolic[1].quadratic

\* C8 witness: the LC oscillator has been initialised
C8_Witness == IsLCOscillator /\ Initialised /\ potential_symbolic # None

-----------------------------------------------------------------------------
(* Properties of from_yaml and _parse_branches, under SpecParse *)

\* from_yaml has returned an instance
Parsed == last_call.op = "from_yaml" /\ ~last_call.raised

\* C11: for every descriptor with node ids in 0..N the branch made for it has
\* exactly these ids as its ordered end nodes, one ground node is made when
\* some descriptor has an end 0 (none otherwise), and the branch is in the
\* branches list of exactly its end nodes.
C11_AsStated ==
  Parsed =>
    LET input == last_call.args[1]
        descs == input.branches_list
        made  == last_call.result[1]
    IN /\ Len(branches) = Len(descs)
       /\ \A k \in 1..Len(descs) : branches[k].nodes = descs[k].ids
       /\ made.ground_nodes = IF \E k \in 1..Len(descs) : 0 \in SeqToSet(descs[k].ids)
                              THEN 1 ELSE 0
       /\ \A n \in 0..input.N : \A k \in 1..Len(descs) :
            InList(k, made.node_branches[n]) <=> n \in SeqToSet(descs[k].ids)

\* an instance was made from a descriptor of a branch from ground to ground
C11_Witness ==
  /\ Parsed
  /\ \E k \in 1..Len(last_call.args[1].branches_list) :
       last_call.args[1].branches_list[k].ids = <<0, 0>>
  /\ Len(branches) = Len(last_call.args[1].branches_list)

\* the words of the descriptors of the last from_yaml call, in reading order
InputWords == Flatten([k \in 1..Len(last_call.args[1].branches_list) |->
                         last_call.args[1].branches_list[k].words])

\* the three shapes of a word: a number, a bare name, "name=value"
IsNumber(w) == w # <<>> /\ \A i \in 1..Len(w) : w[i] = "1"

IsBareName(w) == ~IsNumber(w) /\ \A i \in 1..Len(w) : w[i] # "="

Declares(w, name) ==
  \E i \in 2..(Len(w) - 1) :
    /\ w[i] = "="
    /\ \A j \in 1..Len(w) : j # i => w[j] # "="
    /\ SubSeq(w, 1, i - 1) = name

IsDeclaration(w) == \E i \in 2..(Len(w) - 1) : Declares(w, SubSeq(w, 1, i - 1))

\* every descriptor has the number of words of its type, every word a shape
WellFormedInput ==
  /\ \A k \in 1..Len(last_call.args[1].branches_list) :
       LET d == last_call.args[1].branches_list[k]
       IN Len(d.words) = IF d.type \in {"JJ", "JJ2"} THEN 2 ELSE 1
  /\ \A j \in 1..Len(InputWords) :
       IsNumber(InputWords[j]) \/ IsBareName(InputWords[j]) \/ IsDeclaration(InputWords[j])

\* every bare name of the input comes after a declaration of the same name
BareNamesDeclared ==
  \A j \in 1..Len(InputWords) :
    IsBareName(InputWords[j]) =>
      \E i \in 1..(j - 1) : Declares(InputWords[i], InputWords[j])

-----------------------------------------------------------------------------
(* Properties of check_transformation_matrix, under SpecCheck *)

\* the last call was check_transformation_matrix, and it returned
Checked == last_call.op = "check_transformation_matrix" /\ ~last_call.raised

\* C14: for an invertible supplied matrix check_transformation_matrix does not
\* raise, returns the classification of the supplied matrix, and warns about
\* exactly the mode types whose count in that classification differs, either
\* way, from the count in the computed classification.
C14_AsStated ==
  last_call.op = "check_transformation_matrix" =>
    /\ det(last_call.args[1]) # 0 => ~last_call.raised
    /\ ~last_call.raised =>
         \A t \in ModeTypes :
           t \in last_call.result[1].warnings
             <=> Len(last_call.result[1].var_categories[t])
                   # Len(last_call.result[1].computed[t])

\* a call returned a classification with more modes of one type than the
\* computed classification has, and did not warn about that type
C14_Witness ==
  /\ Checked
  /\ \E t \in ModeTypes :
       /\ Len(last_call.result[1].var_categories[t])
            > Len(last_call.result[1].computed[t])
       /\ t \notin last_call.result[1].warnings

\* the call was made with the matrix that variable_transformation_matrix
\* computes for the circuit
RoundTrip ==
  /\ last_call.op = "check_transformation_matrix"
  /\ last_call.args[1] = ComputedMatrix

\* C15: check_transformation_matrix called with the matrix that
\* variable_transformation_matrix produced returns the category map that
\* variable_transformation_matrix returned: the same set of indices for every
\* category.
C15_AsStated ==
  RoundTrip =>
    /\ ~last_call.raised
    /\ \A t \in ModeTypes :
         SeqToSet(last_call.result[1].var_categories[t])
           = SeqToSet(variable_transformation_matrix(Len(nodes), is_grounded, branches,
                                                     basis_completion).var_categories[t])

\* the round trip returned, and put a mode that variable_transformation_matrix
\* calls periodic or cyclic among the extended modes
C15_Witness ==
  /\ RoundTrip
  /\ Checked
  /\ \E i \in SeqToSet(last_call.result[1].var_categories.extended) :
       LET computed == variable_transformation_matrix(Len(nodes), is_grounded, branches,
                                                      basis_completion).var_categories
       IN i \in SeqToSet(computed.periodic) \cup SeqToSet(computed.cyclic)


\* ---------------------------------------------------------------------------
\* Properties of initiate_symboliccircuit with a supplied matrix, under
\* SpecSupplied
\* ---------------------------------------------------------------------------

\* the last call was initiate_symboliccircuit(transformation_matrix=tm)
SuppliedCall(call) ==
  call.op = "initiate_symboliccircuit" /\ Len(call.args) = 2

\* C13: initiate_symboliccircuit called with a supplied transformation matrix
\* of zero determinant raises and leaves transformation_matrix,
\* var_categories, closure_branches, external_fluxes and the stored symbolic
\* expressions as they were before the call.
C13_AsStated ==
  [][(/\ calls' = calls + 1
      /\ SuppliedCall(last_call')
      /\ det(last_call'.args[2]) = 0)
     => /\ last_call'.raised
        /\ UNCHANGED <<transformation_matrix, var_categories, closure_branches,
                       external_fluxes, potential_symbolic,
                       hamiltonian_symbolic>>]_vars

\* a supplied matrix of zero determinant has become the circuit's
\* transformation matrix
C13_Witness ==
  /\ SuppliedCall(last_call)
  /\ det(last_call.args[2]) = 0
  /\ transformation_matrix = Some(last_call.args[2])
  /\ var_categories # None


\* ---------------------------------------------------------------------------
\* Properties of the closure branches of two instances, under SpecLoops
\* ---------------------------------------------------------------------------

\* two instances made from the same description have both been initialised by
\* initiate_symboliccircuit(), and the circuit has two or more closure branches
BothInitialised ==
  /\ earlier # None
  /\ last_call.op = "initiate_symboliccircuit"
  /\ Len(closure_branches) >= 2

\* C16: two initialisations of the same circuit description with the same
\* configuration give the same closure-branch list in the same order, and so
\* the same branch for each of the flux symbols, when the circuit has two or
\* more closure branches.
C16_AsStated ==
  BothInitialised =>
    /\ closure_branches = earlier[1].closure_branches
    /\ external_fluxes = earlier[1].external_fluxes

\* the two instances list the same closure branches in different orders
C16_Witness ==
  /\ BothInitialised
  /\ SeqToSet(closure_branches) = SeqToSet(earlier[1].closure_branches)
  /\ closure_branches # earlier[1].closure_branches
  /\ external_fluxes = earlier[1].external_fluxes


\* ---------------------------------------------------------------------------
\* Properties of _capacitance_matrix and update_param_init_val, under
\* SpecParams
\* ---------------------------------------------------------------------------

\* the step is a call of the operation op
CallOf(op) == calls' = calls + 1 /\ last_call'.op = op

\* two calls ended the same way: both raised, or both returned the same matrix
SameOutcome(call_1, call_2) ==
  /\ call_1.raised = call_2.raised
  /\ call_1.result = call_2.result

C18_UpdateChangesOnlyNamedValue ==
  [][CallOf("update_param_init_val") =>
       /\ UNCHANGED <<nodes, branches, basis_completion, param_vars, markers,
                      transformation_matrix, var_categories, closure_branches,
                      external_fluxes, offset_charges, potential_symbolic,
                      hamiltonian_symbolic>>
       /\ Len(param_init_vals') = Len(param_init_vals)
       /\ \A i \in 1..Len(param_vars) :
            (param_vars[i].kind = "float" \/ param_vars[i].name # last_call'.args[1])
              => param_init_vals'[i] = param_init_vals[i]]_vars

\* a call bound its value to one of two parameters, and the other parameter
\* still has the value of its declaration
C18_Witness ==
  /\ last_call.op = "update_param_init_val"
  /\ ~last_call.raised
  /\ Len(param_vars) = 2
  /\ \E i, j \in 1..2 :
       /\ i # j
       /\ param_vars[i].name = last_call.args[1]
       /\ param_init_vals[i] = last_call.args[2]
       /\ param_init_vals[j] \notin ParamValues


\* ---------------------------------------------------------------------------
\* Properties of the components and the modes of _independent_modes, under
\* SpecModes
\* ---------------------------------------------------------------------------

\* the nodes that a path of branches of the list joins to a node of S, and the
\* nodes of S
RECURSIVE JoinedTo(_, _)
JoinedTo(branch_list, S) ==
  LET T == S \cup UNION {NodeSet(branch_list[k]) :
                           k \in {i \in 1..Len(branch_list) :
                                    NodeSet(branch_list[i]) \cap S # {}}}
  IN IF T = S THEN S ELSE JoinedTo(branch_list, T)

\* the branch subset of the last _independent_modes call
LastSubset ==
  [k \in 1..Len(last_call.args.branch_subset) |-> branches[last_call.args.branch_subset[k]]]

\* the nodes of the circuit, the ground node included when it is grounded
AllNodes == SeqToSet(NodesCopy(Len(nodes), is_grounded))

\* C19: after _independent_modes on any branch subset, two nodes have the
\* same nonzero label if and only if a path of subset branches joins them.
C19_AsStated ==
  last_call.op = "_independent_modes" =>
    LET nc == NodesCopy(Len(nodes), is_grounded)
    IN \A i, j \in 1..Len(nc) :
         i # j =>
           ((markers[i] = markers[j] /\ markers[i] # 0)
              <=> nc[j] \in JoinedTo(LastSubset, {nc[i]}))

\* two nodes that no path of subset branches joins have the same nonzero label
C19_Witness ==
  /\ last_call.op = "_independent_modes"
  /\ LET nc == NodesCopy(Len(nodes), is_grounded)
     IN \E i, j \in 1..Len(nc) :
          /\ i # j
          /\ markers[i] = markers[j]
          /\ markers[i] # 0
          /\ nc[j] \notin JoinedTo(LastSubset, {nc[i]})

\* the coefficient of a node in a mode: 0 for the ground node
Coefficient(mode, node) == IF node = 0 THEN 0 ELSE mode[node]

\* the dimension of the space of the flux assignments that are equal on the
\* two ends of every branch of the list, the ground node having flux 0: the
\* number of the groups of joined nodes that do not hold the ground node
Dimension(branch_list) ==
  Cardinality({JoinedTo(branch_list, {n}) : n \in AllNodes \ JoinedTo(branch_list, {0})})

\* the last call asked for the single-node modes with the entries (1, 0)
DefaultModesCall ==
  /\ last_call.op = "_independent_modes"
  /\ last_call.args.single_nodes
  /\ last_call.args.basisvec_entries = <<1, 0>>

\* C20: _independent_modes with single-node modes and the entries (1, 0)
\* returns a basis of the space of the flux assignments that are equal on the
\* two ends of every subset branch: the vectors are linearly independent, each
\* is in the space, and there are as many as the dimension of the space.
C20_AsStated ==
  DefaultModesCall =>
    LET basis == last_call.result[1]
    IN /\ basis # <<>> => matrix_rank(basis) = Len(basis)
       /\ \A k \in 1..Len(basis), b \in 1..Len(LastSubset) :
            Coefficient(basis[k], LastSubset[b].nodes[1])
              = Coefficient(basis[k], LastSubset[b].nodes[2])
       /\ Len(basis) = Dimension(LastSubset)

\* the call returned a zero vector for a grounded circuit without shorted
\* branches and a subset that is not empty
C20_Witness ==
  /\ DefaultModesCall
  /\ is_grounded
  /\ \A i \in 1..Len(branches) : branches[i].nodes[1] # branches[i].nodes[2]
  /\ LastSubset # <<>>
  /\ \E k \in 1..Len(last_call.result[1]) :
       \A i \in 1..Len(last_call.result[1][k]) : last_call.result[1][k][i] = 0

\* ---------------------------------------------------------------------------
\* Properties of the steps of variable_transformation_matrix, under SpecVT
\* ---------------------------------------------------------------------------

\* frozen_modes of the circuit before and after lines 939-946
FrozenBefore == FrozenModes(Len(nodes), is_grounded, branches)

FrozenAfter == FoldSigma(FrozenBefore, Len(nodes), is_grounded)

\* C21: for an ungrounded circuit the frozen set after the folding of the
\* all-ones vector (lines 939-946) contains the all-ones vector, is linearly
\* independent, and has a rank not lower than the frozen set before.
C21_FoldedFrozenSet ==
  (ReturnedVT /\ ~is_grounded) =>
    /\ InList(SigmaVec(Len(nodes)), FrozenAfter)
    /\ matrix_rank(FrozenAfter) = Len(FrozenAfter)
    /\ matrix_rank(FrozenAfter) >= matrix_rank(FrozenBefore)

\* the all-ones vector took the place of the first of three frozen vectors
C21_Witness ==
  /\ ReturnedVT
  /\ ~is_grounded
  /\ Len(FrozenBefore) = 3
  /\ FrozenAfter = Tail(FrozenBefore) \o <<SigmaVec(Len(nodes))>>

\* every index of the list before is smaller than every index of the list after
AllBefore(before, after) ==
  \A i \in 1..Len(before), j \in 1..Len(after) : before[i] < after[j]

ReturnedTree == last_call.op = "_spanning_tree"

\* the ends of the branches left in the copy that lie at node n
RemainingEnds(cc, n) ==
  {ke \in (1..Len(cc.branches)) \X (1..2) : branches[cc.branches[ke[1]]].nodes[ke[2]] = n}

\* C23: the trimming loop of _spanning_tree ends (after at most one pass more
\* than there are nodes), and at its end no capacitor is left in the copy,
\* every node left has at least two ends of branches left, every branch left
\* has its ends at nodes left or at ground, and every removed node had 0 or 1
\* branches when it was removed.
C23_TrimmingReachesFixedPoint ==
  ReturnedTree =>
    LET cc == last_call.result[1].copy
    IN /\ cc.passes <= Len(nodes) + 1
       /\ \A k \in 1..Len(cc.branches) : branches[cc.branches[k]].type # "C"
       /\ \A i \in 1..Len(cc.nodes) : Cardinality(RemainingEnds(cc, cc.nodes[i])) >= 2
       /\ \A k \in 1..Len(cc.branches) :
            SeqToSet(branches[cc.branches[k]].nodes) \subseteq SeqToSet(cc.nodes) \cup {0}
       /\ \A r \in 1..Len(cc.removed) : cc.removed[r].degree \in {0, 1}
       /\ SeqToSet(cc.nodes) \cup {cc.removed[r].node : r \in 1..Len(cc.removed)}
            = SeqToSet(nodes)
       /\ Len(cc.nodes) + Len(cc.removed) = Len(nodes)

\* three passes: a node was removed with its only branch, its neighbour in the
\* next pass without a branch, and a node is left
C23_Witness ==
  /\ ReturnedTree
  /\ last_call.result[1].copy.passes >= 3
  /\ last_call.result[1].copy.nodes # <<>>
  /\ \E r \in 1..Len(last_call.result[1].copy.removed) :
       last_call.result[1].copy.removed[r].degree = 0
  /\ \E r \in 1..Len(last_call.result[1].copy.removed) :
       last_call.result[1].copy.removed[r].degree = 1

\* the branches of the positions of a list
BranchesAt(positions) == [k \in 1..Len(positions) |-> branches[positions[k]]]

\* the number of islands that the branches of a list make of the nodes V
Islands(branch_list, V) ==
  Cardinality({JoinedTo(branch_list, {n}) \cap V : n \in V})

\* the level of a placed node
LevelOf(node_sets, n) ==
  CHOOSE k \in 1..Len(node_sets) : InList(n, node_sets[k])

\* a node starts an island when no node placed before it is joined to it
StartsIsland(branch_list, placed, i) ==
  \A j \in 1..(i - 1) : placed[j] \notin JoinedTo(branch_list, {placed[i]})

\* C24: when nodes are left in the trimmed copy, every node left (and ground in
\* a grounded circuit) is in exactly one level; every node that does not start
\* an island has exactly one tree branch to a node of the level before, a node
\* that starts an island has none; the tree branches join what the branches
\* left join, without a cycle, and they are (placed nodes) - (islands) many.
C24_LevelsAndSpanningForest ==
  (ReturnedTree /\ last_call.result[1].copy.nodes # <<>>) =>
    LET cc        == last_call.result[1].copy
        node_sets == last_call.result[1].node_sets
        tree_copy == last_call.result[1].tree_copy
        placed    == Flatten(node_sets)
        V         == SeqToSet(placed)
        left      == BranchesAt(cc.branches)
        tree      == BranchesAt(tree_copy)
        ToLevelBefore(i) ==
          {k \in 1..Len(tree_copy) :
             \E m \in SeqToSet(node_sets[LevelOf(node_sets, placed[i]) - 1]) :
               /\ m # placed[i]
               /\ NodeSet(tree[k]) = {placed[i], m}}
    IN /\ V = SeqToSet(cc.nodes) \cup (IF is_grounded THEN {0} ELSE {})
       /\ Cardinality(V) = Len(placed)
       /\ \A i \in 1..Len(placed) :
            IF StartsIsland(left, placed, i)
            THEN \A k \in 1..Len(tree_copy) :
                   \A j \in 1..(i - 1) : NodeSet(tree[k]) # {placed[i], placed[j]}
            ELSE /\ LevelOf(node_sets, placed[i]) > 1
                 /\ Cardinality(ToLevelBefore(i)) = 1
       /\ Cardinality(SeqToSet(tree_copy)) = Len(tree_copy)
       /\ SeqToSet(tree_copy) \subseteq SeqToSet(cc.branches)
       /\ \A n \in V : JoinedTo(tree, {n}) \cap V = JoinedTo(left, {n}) \cap V
       /\ Len(tree_copy) = Cardinality(V) - Islands(tree, V)
       /\ Len(tree_copy) = Len(placed) - Islands(left, V)

\* two islands are left, a tree branch was chosen, and a branch left is not in
\* the tree
C24_Witness ==
  /\ ReturnedTree
  /\ last_call.result[1].copy.nodes # <<>>
  /\ Islands(BranchesAt(last_call.result[1].copy.branches),
             SeqToSet(Flatten(last_call.result[1].node_sets))) = 2
  /\ Len(last_call.result[1].tree_copy) >= 1
  /\ Len(last_call.result[1].tree_copy) < Len(last_call.result[1].copy.branches)

ReturnedClosure == last_call.op = "_closure_branches"

\* the locals of _spanning_tree for the circuit
TreeOfCircuit == spanning_tree(Len(nodes), is_grounded, branches)

\* C25: every branch of the trimmed copy is matched with exactly one branch of
\* the circuit, and _closure_branches returns exactly the branches that are
\* left after the trimming and are not tree branches, each once, so that their
\* number is (branches left) - (tree branches).
C25_AsStated ==
  ReturnedClosure =>
    LET st == TreeOfCircuit
    IN /\ \A k \in 1..Len(st.copy.branches) :
            Len(SameBranches(branches, st.copy.branches[k])) = 1
       /\ SeqToSet(last_call.result[1])
            = SeqToSet(st.copy.branches) \ SeqToSet(st.tree_copy)
       /\ Len(last_call.result[1]) = Len(st.copy.branches) - Len(st.tree_copy)

\* two identical parallel junctions and nothing else: one of them is the tree
\* branch, and no closure branch is returned
C25_Witness ==
  /\ ReturnedClosure
  /\ Len(branches) = 2
  /\ branches[1] = branches[2]
  /\ branches[1].type = "JJ"
  /\ branches[1].nodes[1] # branches[1].nodes[2]
  /\ Len(TreeOfCircuit.copy.branches) = 2
  /\ Len(TreeOfCircuit.tree_copy) = 1
  /\ last_call.result[1] = <<>>

\* ---------------------------------------------------------------------------
\* _mode_in_subspace on the lists of _independent_modes, under SpecSubspace
\* ---------------------------------------------------------------------------

ReturnedInSubspace == last_call.op = "_mode_in_subspace"

\* the mode is in the linear span of the list: stacking it leaves the rank
InSpan(mode, subspace) ==
  matrix_rank(Append(subspace, mode)) = matrix_rank(subspace)

\* C26: for every mode and every list returned by _independent_modes, the
\* empty list and linearly dependent lists included, _mode_in_subspace(mode,
\* list) is true exactly when the mode is in the linear span of the list.
C26_AsStated ==
  ReturnedInSubspace =>
    (last_call.result[1] <=> InSpan(last_call.args.mode, last_call.args.subspace))

\* a list of two vectors of rank 1 and a mode outside its span: the call
\* answered that the mode is in the subspace
C26_Witness ==
  /\ ReturnedInSubspace
  /\ Len(last_call.args.subspace) = 2
  /\ matrix_rank(last_call.args.subspace) = 1
  /\ ~InSpan(last_call.args.mode, last_call.args.subspace)
  /\ last_call.result[1]

\* ---------------------------------------------------------------------------
\* The capacitance matrix of circuits with numeric parameters, under
\* SpecCapacitance
\* ---------------------------------------------------------------------------

ReturnedCapacitance == last_call.op = "_capacitance_matrix" /\ ~last_call.raised

\* the product of the charging energies 1..MaxEnergy
RECURSIVE Factorial(_)
Factorial(n) == IF n = 0 THEN 1 ELSE n * Factorial(n - 1)

\* the value of an entry in units of 1 / (8 * Factorial(MaxEnergy)): the sum
\* of its terms sign / (8 * capacitance)
RECURSIVE ValueOf(_)
ValueOf(terms) ==
  IF terms = <<>> THEN 0
  ELSE terms[1].sign * (Factorial(MaxEnergy) \div terms[1].capacitance.value)
       + ValueOf(Tail(terms))

\* the branches with a capacitance that join the nodes a and b
Joining(a, b) ==
  SelectSeq(branches, LAMBDA x : x.type \in {"C", "JJ", "JJ2"} /\ NodeSet(x) = {a, b})

\* C27: the capacitance matrix of a circuit with numeric parameters is
\* symmetric; before the row and column of ground are cut each diagonal entry
\* is minus the sum of the other entries of its row; and the entry of two
\* different nodes is minus the sum of 1/(8 EC) over the branches joining the
\* two nodes in either order of the ends, so that a shorted branch adds
\* nothing and parallel branches add up.
C27_SymmetricZeroRowSums ==
  ReturnedCapacitance =>
    LET C_mat == last_call.result[1].C_mat
        full  == last_call.result[1].full
        ids   == IF is_grounded THEN [k \in 1..(Len(nodes) + 1) |-> k - 1] ELSE nodes
        Others[a \in 1..Len(full), n \in 0..Len(full)] ==
          IF n = 0 THEN 0
          ELSE Others[a, n - 1] + (IF n = a THEN 0 ELSE ValueOf(full[a][n]))
    IN /\ ~last_call.result[1].sympy
       /\ \A i, j \in 1..Len(nodes) : ValueOf(C_mat[i][j]) = ValueOf(C_mat[j][i])
       /\ \A a, b \in 1..Len(full) : ValueOf(full[a][b]) = ValueOf(full[b][a])
       /\ \A a \in 1..Len(full) : ValueOf(full[a][a]) = 0 - Others[a, Len(full)]
       /\ \A a, b \in 1..Len(full) :
            a # b => ValueOf(full[a][b])
                       = ValueOf([k \in 1..Len(Joining(ids[a], ids[b])) |->
                                    Term(0 - 1, CapacitanceParameter(
                                                  Joining(ids[a], ids[b])[k]))])
       /\ \A i, j \in 1..Len(nodes) :
            C_mat[i][j] = full[i + (Len(full) - Len(nodes))][j + (Len(full) - Len(nodes))]

\* a circuit with a shorted branch and two parallel branches of different
\* energies whose ends are listed in opposite orders
C27_Witness ==
  /\ ReturnedCapacitance
  /\ \E k \in 1..Len(branches) : branches[k].nodes[1] = branches[k].nodes[2]
  /\ \E k, l \in 1..Len(branches) :
       /\ branches[k].nodes = <<1, 2>>
       /\ branches[l].nodes = <<2, 1>>
       /\ CapacitanceParameter(branches[k]) # CapacitanceParameter(branches[l])

\* ---------------------------------------------------------------------------
\* The frozen category and the frozen elimination, under SpecVT
\* ---------------------------------------------------------------------------

\* the flux differences across the inductors in the returned coordinates
ReturnedInductorForms ==
  InductorForms(Len(nodes), last_call.result[1].matrix, branches)

\* the coordinate has a nonzero flux difference across at least one inductor
AcrossAnInductor(f) ==
  \E r \in 1..Len(ReturnedInductorForms) : ReturnedInductorForms[r][f] # 0

\* C28: every coordinate that variable_transformation_matrix puts in the
\* frozen category has a nonzero flux difference across at least one L branch,
\* and every stationarity condition solved by the frozen elimination of
\* generate_symbolic_lagrangian has a root, also for circuits of several
\* disconnected islands.
C28_AsStated ==
  ReturnedVT =>
    /\ \A k \in 1..Len(last_call.result[1].var_categories.frozen) :
         AcrossAnInductor(last_call.result[1].var_categories.frozen[k])
    /\ FrozenRootsExist(Len(nodes), last_call.result[1].matrix, branches,
                        last_call.result[1].var_categories.frozen)

\* two islands of one inductor each, every node at a branch: each of the three
\* frozen coordinates has a flux difference across an inductor, and the
\* elimination has no root for the last of them
C28_Witness ==
  /\ ReturnedVT
  /\ Len(branches) = 2
  /\ \A i \in 1..2 : branches[i].type = "L" /\ branches[i].nodes[1] # branches[i].nodes[2]
  /\ NodeSet(branches[1]) \cap NodeSet(branches[2]) = {}
  /\ SeqToSet(nodes) \subseteq NodesOf(branches)
  /\ Len(last_call.result[1].var_categories.frozen) = 3
  /\ \A k \in 1..3 : AcrossAnInductor(last_call.result[1].var_categories.frozen[k])
  /\ ~FrozenRootsExist(Len(nodes), last_call.result[1].matrix, branches,
                       last_call.result[1].var_categories.frozen)

\* ---------------------------------------------------------------------------
\* The coordinate block of generate_symbolic_hamiltonian, under SpecSupplied
\* ---------------------------------------------------------------------------

\* the last call was an initiate_symboliccircuit that returned
InitialisedNow ==
  /\ last_call.op = "initiate_symboliccircuit"
  /\ ~last_call.raised
  /\ var_categories # None

\* the indices of the leading block of lines 1555-1581: 1 .. num_nodes -
\* num_frozen_modes
LeadingBlock ==
  1..SliceEnd(Len(nodes) - (IF is_grounded THEN Len(var_categories[1].frozen)
                            ELSE Len(var_categories[1].frozen) + 1),
              Len(nodes))

\* C29: after an initialisation, with a computed or a supplied transformation
\* matrix, the leading block kept by generate_symbolic_hamiltonian is exactly
\* the set of the periodic, extended and cyclic indices.
C29_AsStated ==
  InitialisedNow =>
    LeadingBlock = SeqToSet(var_categories[1].periodic)
                     \cup SeqToSet(var_categories[1].extended)
                     \cup SeqToSet(var_categories[1].cyclic)

\* an initialisation with a supplied matrix returned, the Hamiltonian was
\* computed, and a periodic index is outside the leading block
C29_Witness ==
  /\ InitialisedNow
  /\ SuppliedCall(last_call)
  /\ hamiltonian_symbolic # None
  /\ \E k \in 1..Len(var_categories[1].periodic) :
       var_categories[1].periodic[k] \notin LeadingBlock

\* ---------------------------------------------------------------------------
\* The loops of lines 651-670 of _independent_modes, under SpecPartition
\* ---------------------------------------------------------------------------

\* the positions of the Branch objects of a list
PositionsIn(objects) == [k \in 1..Len(objects) |-> objects[k].position]

\* the while loop of line 655 has been left, and every branch of the subset is
\* in exactly one of the subgraphs, once
PartitionDone ==
  /\ InLoop("after")
  /\ LET placed == Flatten([k \in 1..Len(last_call.result[1].max_connected_subgraphs) |->
                              PositionsIn(last_call.result[1].max_connected_subgraphs[k])])
     IN /\ Len(placed) = Len(last_call.args.branch_subset)
        /\ SeqToSet(placed) = SeqToSet(last_call.args.branch_subset)
        /\ \A k \in 1..Len(last_call.result[1].max_connected_subgraphs) :
             last_call.result[1].max_connected_subgraphs[k] # <<>>

\* C30: the loops of lines 651-670, which remove branches from the list that
\* is iterated, end for every branch subset, and when they have ended every
\* branch of the subset is in exactly one component.
C30_PartitionLoopTerminates ==
  (last_call.op = "_independent_modes") ~> PartitionDone

\* the loops have ended for a subset of three branches, one of them at
\* ground, that make one component: a pass moved a branch and skipped the next
\* one, so the component lists the branches in another order than the subset
C30_Witness ==
  /\ PartitionDone
  /\ Len(last_call.args.branch_subset) = 3
  /\ Len(last_call.result[1].max_connected_subgraphs) = 1
  /\ PositionsIn(last_call.result[1].max_connected_subgraphs[1])
       # last_call.args.branch_subset
  /\ \E k \in 1..Len(branches) : 0 \in NodeSet(branches[k])

====
